---- MODULE Spec2Model ----
(***************************************************************************)
(* A model of the cashier block storage engine (package storage): the      *)
(* embedded backend (badgerStorage, storage/badger.go) and the object      *)
(* store backend (awsStorage, storage/aws.go).                             *)
(*                                                                         *)
(* Strings that take part in key composition or ordering are sequences of  *)
(* character codes; byte slices are sequences of integers 0..255; hex      *)
(* strings are sequences of hex digits 0..15.                              *)
(***************************************************************************)
EXTENDS Integers, Sequences, FiniteSets, TLC

(* ------------------------------------------------------------------ *)
(* Constants of the program                                           *)
(* ------------------------------------------------------------------ *)

\* storage.BlockSize is 16*1024 in the source; the model scales it down so
\* that files of a few blocks, with a tail block of two bytes, stay small.
BlockSize == 3

FileComplete == -1

InvalidPos == -2

ErrExists == "File exists"

ErrNotFound == "File not found"

ErrInvalidSize == "Invalid Size"

ErrInvalidPos == "Invalid Position"

ErrInvalidHash == "Invalid Hash"

ErrIncomplete == "File incomplete"

\* a nil error
Nil == "nil"

\* an error of the underlying store (badger.ErrConflict, an I/O error, an
\* AWS request error): anything the backends propagate unwrapped
StoreErr == "store error"

(* ------------------------------------------------------------------ *)
(* Bounds of the model                                                *)
(* ------------------------------------------------------------------ *)

\* the largest declared file length
MaxLen == 5

\* the -ttl flag, in clock ticks
TTL == 2

\* successful writes remembered per key by the history variable wlog
MaxLog == 3

\* the keys in one page of ListObjectsV2 (1000 in the service)
PageSize == 1

(* ------------------------------------------------------------------ *)
(* Inputs                                                             *)
(* ------------------------------------------------------------------ *)

\* "a" and "b"
KeyA == <<97>>

KeyB == <<98>>

Keys == {KeyA, KeyB}

\* two file contents, different at every offset
Contents == {1, 2}

Byte(c, i) == 16 * c + i

\* the n bytes of content c that belong at file offset pos
Data(c, pos, n) == [i \in 1..n |-> Byte(c, pos + i)]

(* ------------------------------------------------------------------ *)
(* Hex strings                                                        *)
(* ------------------------------------------------------------------ *)

RECURSIVE toHex(_)
toHex(b) ==
    IF b = <<>> THEN <<>>
    ELSE <<b[1] \div 16, b[1] % 16>> \o toHex(Tail(b))

\* the bytes the verb %x scans from a string of whole pairs of digits
RECURSIVE hexString(_)
hexString(s) ==
    IF Len(s) < 2 THEN <<>>
    ELSE <<16 * s[1] + s[2]>> \o hexString(SubSeq(s, 3, Len(s)))

\* fmt.Sscanf(s, "%x", &b): a string with a digit left over after the last
\* pair (or with no digit at all) makes the scan fail before b is assigned,
\* and b stays nil, a slice of no bytes
fromHex(s) ==
    IF Len(s) % 2 # 0 THEN <<>> ELSE hexString(s)

(* ------------------------------------------------------------------ *)
(* The order-preserving digest (crypto/md5), scaled to one byte: the  *)
(* state is a chaining value and the number of bytes consumed.        *)
(* ------------------------------------------------------------------ *)

md5New == [h |-> 7, len |-> 0]

RECURSIVE md5Write(_, _)
md5Write(d, p) ==
    IF p = <<>> THEN d
    ELSE md5Write([h |-> (31 * d.h + p[1]) % 251, len |-> d.len + 1], Tail(p))

\* Sum finalizes a copy of the state: the state itself is left as it is
md5Sum(d) == <<(3 * d.h + 5 * d.len + 1) % 256>>

\* MarshalBinary: a magic byte, then the chaining value and the length
md5MarshalBinary(d) == <<109, d.h, d.len>>

md5UnmarshalBinary(b) ==
    IF Len(b) = 3 /\ b[1] = 109
    THEN [err |-> Nil, d |-> [h |-> b[2], len |-> b[3]]]
    ELSE [err |-> StoreErr, d |-> md5New]

getHasher == md5New

marshalHash(h) == toHex(md5MarshalBinary(h))

\* unmarshalHash leaving the hasher as new, whatever the state saved
unmarshalHashFresh(h, state) == [err |-> Nil, d |-> h]

\* the hasher after unmarshalHash(h, state), and the error it returns
unmarshalHash(h, state) ==
    IF state = <<>> THEN [err |-> Nil, d |-> h]
    ELSE md5UnmarshalBinary(fromHex(state))

\* the digest of a whole byte sequence, as CreateFile's callers compute it
HashOf(data) == md5Sum(md5Write(md5New, data))

(* ------------------------------------------------------------------ *)
(* The cumulative digest (package cumulative). md5.Sum is a 16-byte   *)
(* function of the chaining value above.                              *)
(* ------------------------------------------------------------------ *)

Size == 16

\* md5.Sum(p)
md5SumArray(p) ==
    LET d == md5Write(md5New, p)
    IN  [i \in 1..Size |-> (d.h * (2 * i + 1) + 17 * i + 5 * d.len) % 256]

\* a byte slice is nil or holds bytes: nil and the empty slice differ
NilSlice == [nil |-> TRUE, b |-> <<>>]

Slice(b) == [nil |-> FALSE, b |-> b]

\* a Write that doubles the state before it adds the digest of its input
digestWriteChained(current, p) ==
    LET hash == md5SumArray(p) IN
    IF current = NilSlice THEN [current |-> Slice(hash), panic |-> FALSE]
    ELSE [current |-> Slice([i \in 1..Len(current.b) |->
                               IF i <= Size
                               THEN (2 * current.b[i] + hash[i]) % 256
                               ELSE current.b[i]]),
          panic |-> Len(current.b) < Size]

\* digest.Write(p): the state after it, and whether indexing the state
\* ran off its end
digestWrite(current, p) ==
    LET hash == md5SumArray(p) IN
    IF current = NilSlice THEN [current |-> Slice(hash), panic |-> FALSE]
    ELSE [current |-> Slice([i \in 1..Len(current.b) |->
                               IF i <= Size
                               THEN (current.b[i] + hash[i]) % 256
                               ELSE current.b[i]]),
          panic |-> Len(current.b) < Size]

\* digest.Sum(in): append(in, current...), which is nil when in is nil and
\* the state holds no byte
digestSum(current, in) ==
    IF in.nil /\ current.b = <<>> THEN NilSlice ELSE Slice(in.b \o current.b)

\* digest.MarshalBinary()
digestMarshalBinary(current) == current

\* digest.UnmarshalBinary(b): the error, and the state after it
digestUnmarshalBinary(current, b) ==
    IF Len(b.b) # Size /\ Len(b.b) = 0
    THEN [err |-> "cumulative: invalid hash state size",
          current |-> current]
    ELSE [err |-> Nil, current |-> b]

\* cumulative.New(), no call made on it yet; base is the state it was
\* given last (by New, Reset or UnmarshalBinary) and hist the inputs
\* written since
NewDigest ==
    [current |-> NilSlice, base |-> NilSlice, hist |-> <<>>,
     op |-> "New", arg |-> <<>>, ret |-> NilSlice, err |-> Nil,
     panic |-> FALSE]

(* ------------------------------------------------------------------ *)
(* Key encoding                                                       *)
(* ------------------------------------------------------------------ *)

RECURSIVE Decimal(_)
Decimal(i) ==
    IF i < 10 THEN <<48 + i>>
    ELSE Decimal(i \div 10) \o <<48 + (i % 10)>>

\* "<K>:i"
infoKey(key) == key \o <<58, 105>>

\* "<K>:<i>"
blockKey(key, i) == key \o <<58>> \o Decimal(i)

\* "<K>:"
prefixKey(key) == key \o <<58>>

\* byte-wise lexicographic order of two strings: a < b
RECURSIVE StrLess(_, _)
StrLess(a, b) ==
    IF b = <<>> THEN FALSE
    ELSE IF a = <<>> THEN TRUE
    ELSE IF a[1] # b[1] THEN a[1] < b[1]
    ELSE StrLess(Tail(a), Tail(b))

HasPrefix(s, p) == Len(s) >= Len(p) /\ SubSeq(s, 1, Len(p)) = p

(* ------------------------------------------------------------------ *)
(* The metadata record                                                *)
(* ------------------------------------------------------------------ *)

\* info{Name, ContentType, Length, Hash}: the other fields are zero values
\* a record for a new file that leaves out the hash the caller expects
NewInfoNoHash(filename, ctype, size, hash) ==
    [Name |-> filename, ContentType |-> ctype, Hash |-> <<>>,
     Length |-> size, Created |-> 0, CurPos |-> 0, CurHash |-> <<>>]

NewInfo(filename, ctype, size, hash) ==
    [Name |-> filename, ContentType |-> ctype, Hash |-> toHex(hash),
     Length |-> size, Created |-> 0, CurPos |-> 0, CurHash |-> <<>>]

\* the tag-keyed text form of a record
Marshal(fi) ==
    [n |-> fi.Name, c |-> fi.ContentType, h |-> fi.Hash, l |-> fi.Length,
     t |-> fi.Created, p |-> fi.CurPos, x |-> fi.CurHash]

Unmarshal(v) ==
    [Name |-> v.n, ContentType |-> v.c, Hash |-> v.h, Length |-> v.l,
     Created |-> v.t, CurPos |-> v.p, CurHash |-> v.x]

(* ------------------------------------------------------------------ *)
(* State                                                              *)
(* ------------------------------------------------------------------ *)

VARIABLES
    backend,    \* "badger" or "aws": the backend the handle was opened on
    db,         \* badger: key -> [val, exp], metadata and block records
    dyn,        \* DynamoDB table: Id -> [Value, TTL]
    s3,         \* S3 bucket: object key -> [Body, Expires]
    now,        \* the wall clock
    inflight,   \* per caller: the awsStorage call it is in the middle of
    last,       \* the call that returned most recently, and what it returned
    digest,     \* a cumulative digest object, and the calls made on it
    wlog        \* per key: the non-empty writes accepted since the last
                \* successful CreateFile, whether no DeleteFile ran since,
                \* and whether a WriteAt was abandoned after it put a block

vars == <<backend, db, dyn, s3, now, inflight, last, digest, wlog>>

Procs == {1, 2}

EmptyKV == [k \in {} |-> 0]

Put(kv, k, v) == [x \in (DOMAIN kv) \cup {k} |-> IF x = k THEN v ELSE kv[x]]

Del(kv, k) == [x \in (DOMAIN kv) \ {k} |-> kv[x]]

Idle == [op |-> "idle"]

NoLog == [clean |-> FALSE, crashed |-> FALSE, reopened |-> FALSE,
          writes |-> <<>>]

\* history: CreateFile(key) succeeded
LogCreate(key) ==
    [wlog EXCEPT ![key] = [clean |-> TRUE, crashed |-> FALSE,
                           reopened |-> FALSE, writes |-> <<>>]]

\* history: a WriteAt(key, ...) was abandoned after it had put a block
LogCrash(key) ==
    IF wlog[key].clean THEN [wlog EXCEPT ![key].crashed = TRUE] ELSE wlog

\* history: WriteAt(key, pos, data) succeeded
LogWrite(key, pos, data) ==
    IF data = <<>> \/ ~wlog[key].clean THEN wlog
    ELSE [wlog EXCEPT ![key].writes = Append(@, [pos |-> pos, data |-> data])]

\* history: a DeleteFile call returned
LogDelete == [k \in Keys |-> NoLog]

NoStat == [Name |-> "", ContentType |-> "", Hash |-> <<>>, Length |-> 0,
           Next |-> InvalidPos, Created |-> 0, ExpiresAt |-> 0]

\* a returned call: its arguments and results (fields a call does not have
\* hold zero values)
Returned(op, key, pos, n, ret, err) ==
    [op |-> op, key |-> key, pos |-> pos, n |-> n, ret |-> ret, err |-> err,
     data |-> <<>>, buf |-> <<>>, stat |-> NoStat]

\* a returned WriteAt(key, pos, data)
ReturnedWrite(key, pos, data, ret, err) ==
    [Returned("WriteAt", key, pos, Len(data), ret, err) EXCEPT !.data = data]

Init ==
    /\ backend \in {"badger", "aws"}
    /\ db = EmptyKV
    /\ dyn = EmptyKV
    /\ s3 = EmptyKV
    /\ now = 1
    /\ inflight = [p \in Procs |-> Idle]
    /\ last = Returned("none", <<>>, 0, 0, 0, Nil)
    /\ digest = NewDigest
    /\ wlog = [k \in Keys |-> NoLog]

(* ------------------------------------------------------------------ *)
(* The embedded backend: badgerStorage                                *)
(* ------------------------------------------------------------------ *)

\* txn.Get finds the key: present and not expired
BadgerHas(d, k) == k \in DOMAIN d /\ d[k].exp > now

\* a set that leaves the expiry of a key already there as it is
SetKeepsExpiry(d, k, v) ==
    Put(d, k, [val |-> v,
               exp |-> IF k \in DOMAIN d THEN d[k].exp ELSE now + TTL])

\* txn.SetWithTTL(k, v, s.ttl)
SetWithTTL(d, k, v) == Put(d, k, [val |-> v, exp |-> now + TTL])

\* txn.Delete(k)
TxnDelete(d, k) == Del(d, k)

\* the outcome of a transaction function: the error it returns, the position
\* (or count) it leaves in the variable it captured, and the transaction's
\* pending view of the store
TxnResult(err, ret, txn) == [err |-> err, ret |-> ret, txn |-> txn]

\* db.Update(fn) committing the pending writes of fn even if fn returns an
\* error
BadgerUpdateKeepsPending(d, res, fail) ==
    IF ~fail THEN res.txn ELSE d

\* db.Update(fn): the pending writes of fn are committed when fn returns nil
\* and the commit succeeds, and discarded otherwise
BadgerUpdate(d, res, fail) ==
    IF res.err = Nil /\ ~fail THEN res.txn ELSE d

\* the error db.Update(fn) returns
BadgerUpdateErr(res, fail) ==
    IF res.err = Nil /\ fail THEN StoreErr ELSE res.err

\* the function CreateFile runs in its transaction
BadgerCreateFileTxn(d, key, filename, ctype, size, hash) ==
    LET ikey == infoKey(key)
        data == Marshal(NewInfo(filename, ctype, size, hash))
    IN  IF BadgerHas(d, ikey) THEN TxnResult(ErrExists, 0, d)
        ELSE TxnResult(Nil, 0, SetWithTTL(d, ikey, data))

\* the loop of DeleteFile over the block keys 0 .. blocks-1
RECURSIVE BadgerDeleteBlocks(_, _, _, _)
BadgerDeleteBlocks(d, key, i, blocks) ==
    IF i < blocks
    THEN BadgerDeleteBlocks(TxnDelete(d, blockKey(key, i)), key, i + 1, blocks)
    ELSE d

\* the function DeleteFile runs in its transaction
BadgerDeleteFileTxn(d, key) ==
    LET ikey == infoKey(key) IN
    IF ~BadgerHas(d, ikey) THEN TxnResult(Nil, 0, d)
    ELSE
      LET fileInfo == Unmarshal(d[ikey].val)
          d1 == TxnDelete(d, ikey)
          length == IF fileInfo.CurPos >= 0 THEN fileInfo.CurPos
                    ELSE fileInfo.Length
          blocks == (length \div BlockSize)
                    + (IF length % BlockSize > 0 THEN 1 ELSE 0)
      IN  TxnResult(Nil, 0, BadgerDeleteBlocks(d1, key, 0, blocks))

\* BadgerWriteBlocks with the block number left where it started
RECURSIVE BadgerWriteBlocksNoAdvance(_, _, _, _, _, _, _)
BadgerWriteBlocksNoAdvance(d, key, data, block, offs, ldata, curHash) ==
    IF ldata > 0
    THEN LET rem == SubSeq(data, offs + 1, Len(data))
             buf == IF Len(rem) > BlockSize THEN SubSeq(rem, 1, BlockSize)
                    ELSE rem
         IN  BadgerWriteBlocksNoAdvance(SetWithTTL(d, blockKey(key, block), buf),
                                        key, data, block, offs + Len(buf),
                                        ldata - Len(buf),
                                        md5Write(curHash, buf))
    ELSE [txn |-> d, offs |-> offs, curHash |-> curHash]

\* the loop of WriteAt over the blocks of data: one block record per
\* BlockSize bytes, each folded into the running hash
RECURSIVE BadgerWriteBlocks(_, _, _, _, _, _, _)
BadgerWriteBlocks(d, key, data, block, offs, ldata, curHash) ==
    IF ldata > 0
    THEN LET rem == SubSeq(data, offs + 1, Len(data))
             buf == IF Len(rem) > BlockSize THEN SubSeq(rem, 1, BlockSize)
                    ELSE rem
         IN  BadgerWriteBlocks(SetWithTTL(d, blockKey(key, block), buf), key,
                               data, block + 1, offs + Len(buf),
                               ldata - Len(buf), md5Write(curHash, buf))
    ELSE [txn |-> d, offs |-> offs, curHash |-> curHash]

\* BadgerWriteAtCheck without the test for a complete file
BadgerWriteAtCheckNoExists(fileInfo, pos, data) ==
    LET nblocks == Len(data) \div BlockSize
        rest == Len(data) % BlockSize
        startBlock == pos \div BlockSize
        fblocks == fileInfo.Length \div BlockSize
    IN  IF pos # fileInfo.CurPos THEN ErrInvalidPos
        ELSE IF pos + Len(data) > fileInfo.Length THEN ErrInvalidSize
        ELSE IF startBlock + nblocks < fblocks /\ rest # 0 THEN ErrInvalidSize
        ELSE Nil

\* BadgerWriteAtCheck turning down only a pos beyond CurPos
BadgerWriteAtCheckAhead(fileInfo, pos, data) ==
    LET nblocks == Len(data) \div BlockSize
        rest == Len(data) % BlockSize
        startBlock == pos \div BlockSize
        fblocks == fileInfo.Length \div BlockSize
    IN  IF fileInfo.CurPos < 0 THEN ErrExists
        ELSE IF pos > fileInfo.CurPos THEN ErrInvalidPos
        ELSE IF pos + Len(data) > fileInfo.Length THEN ErrInvalidSize
        ELSE IF startBlock + nblocks < fblocks /\ rest # 0 THEN ErrInvalidSize
        ELSE Nil

\* the checks of WriteAt on the metadata record it has read: the error, or
\* Nil when the write may go ahead
BadgerWriteAtCheck(fileInfo, pos, data) ==
    LET nblocks == Len(data) \div BlockSize
        rest == Len(data) % BlockSize
        startBlock == pos \div BlockSize
        fblocks == fileInfo.Length \div BlockSize
    IN  IF fileInfo.CurPos < 0 THEN ErrExists
        ELSE IF pos # fileInfo.CurPos THEN ErrInvalidPos
        ELSE IF pos + Len(data) > fileInfo.Length THEN ErrInvalidSize
        ELSE IF startBlock + nblocks < fblocks /\ rest # 0 THEN ErrInvalidSize
        ELSE Nil

\* WriteAt with no comparison of the digest to the hash CreateFile gave
BadgerHashNotCompared(fileInfo, offs, hh) == FALSE

\* the write completes the file and its digest hh is not the hash
\* CreateFile gave
BadgerHashRejected(fileInfo, offs, hh) ==
    /\ fileInfo.CurPos + offs = fileInfo.Length
    /\ fileInfo.Hash # <<>>
    /\ fileInfo.Hash # toHex(hh)

\* BadgerNewInfo leaving the saved hash state in the record of a complete file
BadgerNewInfoKeepsCurHash(fileInfo, offs, curHash) ==
    IF fileInfo.CurPos + offs = fileInfo.Length
    THEN [fileInfo EXCEPT
            !.Hash = IF fileInfo.Hash = <<>> THEN toHex(md5Sum(curHash))
                     ELSE @,
            !.CurPos = FileComplete,
            !.CurHash = marshalHash(curHash),
            !.Created = now]
    ELSE [fileInfo EXCEPT
            !.CurHash = marshalHash(curHash),
            !.CurPos = fileInfo.CurPos + offs,
            !.Created = now]

\* the metadata record WriteAt stores after writing offs bytes that left the
\* running hash at curHash
BadgerNewInfo(fileInfo, offs, curHash) ==
    IF fileInfo.CurPos + offs = fileInfo.Length
    THEN [fileInfo EXCEPT
            !.Hash = IF fileInfo.Hash = <<>> THEN toHex(md5Sum(curHash))
                     ELSE @,
            !.CurPos = FileComplete,
            !.CurHash = <<>>,
            !.Created = now]
    ELSE [fileInfo EXCEPT
            !.CurHash = marshalHash(curHash),
            !.CurPos = fileInfo.CurPos + offs,
            !.Created = now]

\* the function WriteAt runs in its transaction
BadgerWriteAtTxn(d, key, pos, data) ==
    LET ikey == infoKey(key)
        startBlock == pos \div BlockSize
    IN
    IF ~BadgerHas(d, ikey) THEN TxnResult(ErrNotFound, InvalidPos, d)
    ELSE
      LET fileInfo == Unmarshal(d[ikey].val)
          check == BadgerWriteAtCheck(fileInfo, pos, data)
          hash0 == unmarshalHash(md5New, fileInfo.CurHash)
          loop == BadgerWriteBlocks(d, key, data, startBlock, 0, Len(data),
                                    hash0.d)
          hh == md5Sum(loop.curHash)
          newInfo == BadgerNewInfo(fileInfo, loop.offs, loop.curHash)
      IN
      IF check # Nil THEN TxnResult(check, InvalidPos, d)
      ELSE IF hash0.err # Nil THEN TxnResult(hash0.err, InvalidPos, d)
      ELSE IF BadgerHashRejected(fileInfo, loop.offs, hh)
        THEN TxnResult(ErrInvalidHash, InvalidPos, loop.txn)
      ELSE TxnResult(Nil, newInfo.CurPos,
                     SetWithTTL(loop.txn, ikey, Marshal(newInfo)))

\* the loop of ReadAt over the blocks: copies up to lbuf bytes, the in-block
\* offset offs being reset to 0 by the first block read
RECURSIVE BadgerReadBlocks(_, _, _, _, _, _)
BadgerReadBlocks(d, key, block, offs, lbuf, buf) ==
    IF lbuf > 0
    THEN LET bkey == blockKey(key, block) IN
         IF ~BadgerHas(d, bkey) THEN [err |-> ErrNotFound, buf |-> buf]
         ELSE IF offs > Len(d[bkey].val) THEN [err |-> "panic", buf |-> buf]
         ELSE LET data == SubSeq(d[bkey].val, offs + 1, Len(d[bkey].val))
                  l == Len(data)
              IN  IF lbuf > l
                  THEN BadgerReadBlocks(d, key, block + 1, 0, lbuf - l,
                                        buf \o data)
                  ELSE BadgerReadBlocks(d, key, block + 1, 0, 0,
                                        buf \o SubSeq(data, 1, lbuf))
    ELSE [err |-> Nil, buf |-> buf]

\* the function ReadAt runs in its (read-only) transaction: the error, and
\* the bytes copied to the front of the caller's buffer of lenbuf bytes
BadgerReadAtTxn(d, key, lenbuf, pos) ==
    LET ikey == infoKey(key) IN
    IF ~BadgerHas(d, ikey) THEN [err |-> ErrNotFound, buf |-> <<>>]
    ELSE
      LET fileInfo == Unmarshal(d[ikey].val)
          lbuf == IF fileInfo.Length - pos < lenbuf
                  THEN fileInfo.Length - pos ELSE lenbuf
      IN  IF fileInfo.CurPos # FileComplete
            THEN [err |-> ErrIncomplete, buf |-> <<>>]
          ELSE IF pos > fileInfo.Length
            THEN [err |-> ErrInvalidPos, buf |-> <<>>]
          ELSE BadgerReadBlocks(d, key, pos \div BlockSize, pos % BlockSize,
                                lbuf, <<>>)

\* what Stat returns
BadgerStatTxn(d, key) ==
    LET ikey == infoKey(key) IN
    IF ~BadgerHas(d, ikey) THEN [err |-> ErrNotFound, stat |-> NoStat]
    ELSE LET fileInfo == Unmarshal(d[ikey].val) IN
         [err |-> Nil,
          stat |-> [Name |-> fileInfo.Name,
                    ContentType |-> fileInfo.ContentType,
                    Hash |-> fileInfo.Hash,
                    Length |-> fileInfo.Length,
                    Next |-> fileInfo.CurPos,
                    Created |-> fileInfo.Created,
                    ExpiresAt |-> d[ikey].exp]]

BadgerCreateFile(key, size, hash, fail) ==
    /\ backend = "badger"
    /\ LET res == BadgerCreateFileTxn(db, key, "a.bin",
                                      "application/octet-stream", size, hash)
           err == BadgerUpdateErr(res, fail)
       IN  /\ db' = BadgerUpdate(db, res, fail)
           /\ last' = Returned("CreateFile", key, 0, 0, 0, err)
           /\ wlog' = IF err = Nil THEN LogCreate(key) ELSE wlog
    /\ UNCHANGED <<backend, digest, dyn, s3, now, inflight>>

BadgerDeleteFile(key, fail) ==
    /\ backend = "badger"
    /\ LET res == BadgerDeleteFileTxn(db, key)
           err == BadgerUpdateErr(res, fail)
       IN  /\ db' = BadgerUpdate(db, res, fail)
           /\ last' = Returned("DeleteFile", key, 0, 0, 0, err)
           /\ wlog' = LogDelete
    /\ UNCHANGED <<backend, digest, dyn, s3, now, inflight>>

\* WriteAt with no test of pos before the transaction
BadgerWriteAtNoPosCheck(key, pos, data, fail) ==
    /\ backend = "badger"
    /\ LET res == BadgerWriteAtTxn(db, key, pos, data)
           err == BadgerUpdateErr(res, fail)
       IN  /\ db' = BadgerUpdate(db, res, fail)
           /\ last' = ReturnedWrite(key, pos, data, res.ret, err)
           /\ wlog' = IF err = Nil THEN LogWrite(key, pos, data) ELSE wlog
    /\ UNCHANGED <<backend, digest, dyn, s3, now, inflight>>

BadgerWriteAt(key, pos, data, fail) ==
    /\ backend = "badger"
    /\ IF pos < 0 \/ pos % BlockSize # 0
       THEN /\ last' = ReturnedWrite(key, pos, data, InvalidPos,
                                     ErrInvalidPos)
            /\ UNCHANGED <<db, wlog>>
       ELSE LET res == BadgerWriteAtTxn(db, key, pos, data)
                err == BadgerUpdateErr(res, fail)
            IN  /\ db' = BadgerUpdate(db, res, fail)
                /\ last' = ReturnedWrite(key, pos, data, res.ret, err)
                /\ wlog' = IF err = Nil THEN LogWrite(key, pos, data)
                           ELSE wlog
    /\ UNCHANGED <<backend, digest, dyn, s3, now, inflight>>

\* ReadAt with no test of pos before the transaction
BadgerReadAtResAnyPos(d, key, lenbuf, pos) ==
    BadgerReadAtTxn(d, key, lenbuf, pos)

\* ReadAt: the error, and the bytes counted as read
BadgerReadAtRes(d, key, lenbuf, pos) ==
    IF pos < 0 THEN [err |-> ErrInvalidPos, buf |-> <<>>]
    ELSE BadgerReadAtTxn(d, key, lenbuf, pos)

BadgerReadAt(key, lenbuf, pos) ==
    /\ backend = "badger"
    /\ LET res == BadgerReadAtRes(db, key, lenbuf, pos)
       IN  last' = [Returned("ReadAt", key, pos, lenbuf, Len(res.buf), res.err)
                      EXCEPT !.buf = res.buf]
    /\ UNCHANGED <<backend, digest, db, dyn, s3, now, inflight, wlog>>

BadgerStat(key) ==
    /\ backend = "badger"
    /\ LET res == BadgerStatTxn(db, key)
       IN  last' = [Returned("Stat", key, 0, 0, 0, res.err)
                      EXCEPT !.stat = res.stat]
    /\ UNCHANGED <<backend, digest, db, dyn, s3, now, inflight, wlog>>

(* ------------------------------------------------------------------ *)
(* The object-store backend: awsStorage                               *)
(* ------------------------------------------------------------------ *)

\* s.prefix: the handle was opened on "<bucket>/p"
S3Prefix == <<112, 47>>

\* upsertInfo sending no condition with its PutItem
upsertInfoNoCondition(t, key, value, create) ==
    [err |-> Nil,
     dyn |-> Put(t, infoKey(key),
                 [Value |-> Marshal(value), TTL |-> now + TTL])]

\* upsertInfo: one PutItem, conditional on the row being absent when create
\* is set, unconditional otherwise
upsertInfo(t, key, value, create) ==
    IF create /\ infoKey(key) \in DOMAIN t
    THEN [err |-> ErrExists, dyn |-> t]
    ELSE [err |-> Nil,
          dyn |-> Put(t, infoKey(key),
                      [Value |-> Marshal(value), TTL |-> now + TTL])]

\* getInfo taking a response with no item for an empty record
getInfoNoItemCheck(t, key) ==
    IF infoKey(key) \notin DOMAIN t
    THEN [err |-> Nil, fileInfo |-> NewInfo("", "", 0, <<>>),
          ExpiresAt |-> 0]
    ELSE [err |-> Nil, fileInfo |-> Unmarshal(t[infoKey(key)].Value),
          ExpiresAt |-> t[infoKey(key)].TTL]

\* getInfo: one strongly consistent GetItem
getInfo(t, key) ==
    IF infoKey(key) \notin DOMAIN t
    THEN [err |-> ErrNotFound, fileInfo |-> NewInfo("", "", 0, <<>>),
          ExpiresAt |-> 0]
    ELSE [err |-> Nil, fileInfo |-> Unmarshal(t[infoKey(key)].Value),
          ExpiresAt |-> t[infoKey(key)].TTL]

\* the keys ListObjectsV2 returns: those with the prefix, after startAfter
ListObjectsV2(objs, prefix, startAfter) ==
    {k \in DOMAIN objs : HasPrefix(k, prefix) /\ StrLess(startAfter, k)}

\* GetObject with Range "bytes=<from>-" (upper < 0) or "bytes=<from>-<upper>",
\* or with no Range (from = 0, upper < 0)
GetObject(objs, k, from, upper) ==
    IF k \notin DOMAIN objs THEN [err |-> ErrNotFound, body |-> <<>>]
    ELSE LET b == objs[k].Body
             hi == IF upper < 0 \/ upper + 1 > Len(b) THEN Len(b)
                   ELSE upper + 1
         IN  IF from > 0 /\ from >= Len(b)
             THEN [err |-> StoreErr, body |-> <<>>]
             ELSE [err |-> Nil, body |-> SubSeq(b, from + 1, hi)]

\* io.ReadAtLeast(body, buf, min) with len(buf) = cap, every outcome: it
\* reads until it has min bytes, and each Read of the body gives as many
\* bytes as it likes, so the count is any from min up to what the body
\* holds and the buffer takes; a body that ends before min bytes is read
\* to its end and gives an error
ReadAtLeast(body, cap, min) ==
    LET most == IF Len(body) < cap THEN Len(body) ELSE cap IN
    IF cap < min THEN {[err |-> "short buffer", data |-> <<>>]}
    ELSE IF most < min
      THEN {[err |-> IF most = 0 THEN "EOF" ELSE "unexpected EOF",
             data |-> SubSeq(body, 1, most)]}
    ELSE {[err |-> Nil, data |-> SubSeq(body, 1, n)] : n \in min..most}

AwsCreateFile(key, size, hash) ==
    /\ backend = "aws"
    /\ LET res == upsertInfo(dyn, key,
                             NewInfo("a.bin", "application/octet-stream",
                                     size, hash), TRUE)
       IN  /\ dyn' = res.dyn
           /\ last' = Returned("CreateFile", key, 0, 0, 0, res.err)
           /\ wlog' = IF res.err = Nil THEN LogCreate(key) ELSE wlog
    /\ UNCHANGED <<backend, digest, db, s3, now, inflight>>

\* DeleteFile, first request: DeleteItem on the table, with the key as given
AwsDeleteFileCall(p, key) ==
    /\ backend = "aws"
    /\ inflight[p] = Idle
    /\ dyn' = Del(dyn, key)
    /\ inflight' = [inflight EXCEPT ![p] =
           [op |-> "DeleteFile", key |-> key, after |-> prefixKey(key),
            dels |-> {}, listed |-> FALSE]]
    /\ UNCHANGED <<backend, digest, db, s3, now, last, wlog>>

\* one page of ListObjectsV2: the first PageSize keys of the listing
ListPage(objs, prefix, startAfter) ==
    LET all == ListObjectsV2(objs, prefix, startAfter) IN
    {k \in all : Cardinality({j \in all : StrLess(j, k)}) < PageSize}

\* the key of a page that sorts last, after which the next page starts
LastKey(page) == CHOOSE k \in page : \A j \in page : j = k \/ StrLess(j, k)

\* DeleteFile, the paginator: one ListObjectsV2 request, whose keys are
\* added to dels; after the last page DeleteFile returns nil when dels is
\* empty
AwsDeleteFileList(p) ==
    /\ backend = "aws"
    /\ inflight[p].op = "DeleteFile"
    /\ ~inflight[p].listed
    /\ LET c == inflight[p]
           all == ListObjectsV2(s3, S3Prefix, c.after)
           page == ListPage(s3, S3Prefix, c.after)
           dels == c.dels \cup page
       IN  IF page # all
           THEN /\ inflight' = [inflight EXCEPT ![p].dels = dels,
                                                ![p].after = LastKey(page)]
                /\ UNCHANGED <<last, wlog>>
           ELSE IF dels # {}
           THEN /\ inflight' = [inflight EXCEPT ![p].dels = dels,
                                                ![p].listed = TRUE]
                /\ UNCHANGED <<last, wlog>>
           ELSE /\ inflight' = [inflight EXCEPT ![p] = Idle]
                /\ last' = Returned("DeleteFile", c.key, 0, 0, 0, Nil)
                /\ wlog' = LogDelete
    /\ UNCHANGED <<backend, digest, db, dyn, s3, now>>

\* DeleteFile, the paginator stops on an error: DeleteFile returns it when
\* no key was listed, and else logs it and goes on with the keys listed
AwsDeleteFileListErr(p) ==
    /\ backend = "aws"
    /\ inflight[p].op = "DeleteFile"
    /\ ~inflight[p].listed
    /\ LET c == inflight[p] IN
       IF c.dels # {}
       THEN /\ inflight' = [inflight EXCEPT ![p].listed = TRUE]
            /\ UNCHANGED <<last, wlog>>
       ELSE /\ inflight' = [inflight EXCEPT ![p] = Idle]
            /\ last' = Returned("DeleteFile", c.key, 0, 0, 0, StoreErr)
            /\ wlog' = LogDelete
    /\ UNCHANGED <<backend, digest, db, dyn, s3, now>>

\* DeleteFile, last request: DeleteObjects with the keys listed. The keys
\* kept are those the request did not delete (all of them when the request
\* fails, those in the Errors of its output otherwise); the error is logged,
\* the Errors are not looked at, and DeleteFile returns nil
AwsDeleteFileObjects(p) ==
    /\ backend = "aws"
    /\ inflight[p].op = "DeleteFile"
    /\ inflight[p].listed
    /\ LET c == inflight[p] IN
       /\ \E kept \in SUBSET c.dels :
            s3' = [k \in (DOMAIN s3) \ (c.dels \ kept) |-> s3[k]]
       /\ last' = Returned("DeleteFile", c.key, 0, 0, 0, Nil)
    /\ inflight' = [inflight EXCEPT ![p] = Idle]
    /\ wlog' = LogDelete
    /\ UNCHANGED <<backend, digest, db, dyn, now>>

\* WriteAt up to the block loop: the argument checks, getInfo and the checks
\* against the metadata read
AwsWriteAtCall(p, key, pos, data) ==
    /\ backend = "aws"
    /\ inflight[p] = Idle
    /\ LET nblocks == Len(data) \div BlockSize
           rest == Len(data) % BlockSize
           startBlock == pos \div BlockSize
           got == getInfo(dyn, key)
           fileInfo == got.fileInfo
           fblocks == fileInfo.Length \div BlockSize
           hash0 == unmarshalHash(getHasher, fileInfo.CurHash)
           err == IF pos < 0 \/ pos % BlockSize # 0 THEN ErrInvalidPos
                  ELSE IF got.err # Nil THEN got.err
                  ELSE IF fileInfo.CurPos < 0 THEN ErrExists
                  ELSE IF pos # fileInfo.CurPos THEN ErrInvalidPos
                  ELSE IF pos + Len(data) > fileInfo.Length
                    THEN ErrInvalidSize
                  ELSE IF startBlock + nblocks < fblocks /\ rest # 0
                    THEN ErrInvalidSize
                  ELSE hash0.err
       IN  IF err # Nil
           THEN /\ last' = ReturnedWrite(key, pos, data, InvalidPos, err)
                /\ UNCHANGED inflight
           ELSE /\ inflight' = [inflight EXCEPT ![p] =
                      [op |-> "WriteAt", key |-> key, pos |-> pos,
                       data |-> data, fileInfo |-> fileInfo,
                       block |-> startBlock, offs |-> 0,
                       ldata |-> Len(data), curHash |-> hash0.d]]
                /\ UNCHANGED last
    /\ UNCHANGED <<backend, digest, db, dyn, s3, now, wlog>>

\* AwsWriteAtPut with the metadata update moved into the block loop
AwsWriteAtPutUpdatesInfo(p) ==
    /\ backend = "aws"
    /\ inflight[p].op = "WriteAt"
    /\ inflight[p].ldata > 0
    /\ LET c == inflight[p]
           rem == SubSeq(c.data, c.offs + 1, Len(c.data))
           buf == IF Len(rem) > BlockSize THEN SubSeq(rem, 1, BlockSize)
                  ELSE rem
       IN  /\ s3' = Put(s3, S3Prefix \o blockKey(c.key, c.block),
                        [Body |-> buf, Expires |-> now + TTL])
           /\ dyn' = upsertInfo(dyn, c.key,
                                [c.fileInfo EXCEPT
                                   !.CurPos = @ + c.offs + Len(buf)],
                                FALSE).dyn
           /\ inflight' = [inflight EXCEPT ![p] =
                  [c EXCEPT !.curHash = md5Write(c.curHash, buf),
                            !.block = c.block + 1,
                            !.offs = c.offs + Len(buf),
                            !.ldata = c.ldata - Len(buf)]]
    /\ UNCHANGED <<backend, digest, db, now, last, wlog>>

\* WriteAt, one turn of the block loop: one PutObject
AwsWriteAtPut(p) ==
    /\ backend = "aws"
    /\ inflight[p].op = "WriteAt"
    /\ inflight[p].ldata > 0
    /\ LET c == inflight[p]
           rem == SubSeq(c.data, c.offs + 1, Len(c.data))
           buf == IF Len(rem) > BlockSize THEN SubSeq(rem, 1, BlockSize)
                  ELSE rem
       IN  /\ s3' = Put(s3, S3Prefix \o blockKey(c.key, c.block),
                        [Body |-> buf, Expires |-> now + TTL])
           /\ inflight' = [inflight EXCEPT ![p] =
                  [c EXCEPT !.curHash = md5Write(c.curHash, buf),
                            !.block = c.block + 1,
                            !.offs = c.offs + Len(buf),
                            !.ldata = c.ldata - Len(buf)]]
    /\ UNCHANGED <<backend, digest, db, dyn, now, last, wlog>>

\* WriteAt after the block loop: the hash check and the metadata update
AwsWriteAtFinish(p, fail) ==
    /\ backend = "aws"
    /\ inflight[p].op = "WriteAt"
    /\ inflight[p].ldata = 0
    /\ LET c == inflight[p]
           fileInfo == c.fileInfo
           hh == md5Sum(c.curHash)
           done == fileInfo.CurPos + c.offs = fileInfo.Length
           newInfo ==
             IF done
             THEN [fileInfo EXCEPT
                     !.Hash = IF fileInfo.Hash = <<>> THEN toHex(hh) ELSE @,
                     !.CurPos = FileComplete,
                     !.CurHash = <<>>,
                     !.Created = now]
             ELSE [fileInfo EXCEPT
                     !.CurHash = marshalHash(c.curHash),
                     !.CurPos = fileInfo.CurPos + c.offs,
                     !.Created = now]
           res == upsertInfo(dyn, c.key, newInfo, FALSE)
       IN  IF done /\ fileInfo.Hash # <<>> /\ fileInfo.Hash # toHex(hh)
           THEN /\ last' = ReturnedWrite(c.key, c.pos, c.data, InvalidPos,
                                         ErrInvalidHash)
                /\ UNCHANGED <<dyn, wlog>>
           ELSE IF fail
           THEN /\ last' = ReturnedWrite(c.key, c.pos, c.data,
                                         newInfo.CurPos, StoreErr)
                /\ UNCHANGED <<dyn, wlog>>
           ELSE /\ dyn' = res.dyn
                /\ last' = ReturnedWrite(c.key, c.pos, c.data,
                                         newInfo.CurPos, res.err)
                /\ wlog' = LogWrite(c.key, c.pos, c.data)
    /\ inflight' = [inflight EXCEPT ![p] = Idle]
    /\ UNCHANGED <<backend, digest, db, s3, now>>

\* a WriteAt in flight ends where it is: a request fails, or the process
\* crashes or the transport abandons the call
AwsAbort(p) ==
    /\ backend = "aws"
    /\ inflight[p].op = "WriteAt"
    /\ LET c == inflight[p] IN
       /\ last' = ReturnedWrite(c.key, c.pos, c.data, InvalidPos, StoreErr)
       /\ wlog' = IF c.offs > 0 THEN LogCrash(c.key) ELSE wlog
    /\ inflight' = [inflight EXCEPT ![p] = Idle]
    /\ UNCHANGED <<backend, digest, db, dyn, s3, now>>

\* ReadAt up to the block loop: the test of pos, getInfo, the checks against
\* the metadata read, and the block, the Range (from, upper) and the count
\* lbuf the loop starts with
AwsReadAtHead(t, key, lenbuf, pos) ==
    LET got == getInfo(t, key)
        fileInfo == got.fileInfo
        offs == pos % BlockSize
        lbuf == IF fileInfo.Length - pos < lenbuf THEN fileInfo.Length - pos
                ELSE lenbuf
        err == IF pos < 0 THEN ErrInvalidPos
               ELSE IF got.err # Nil THEN got.err
               ELSE IF fileInfo.CurPos # FileComplete THEN ErrIncomplete
               ELSE IF pos > fileInfo.Length THEN ErrInvalidPos
               ELSE Nil
    IN  [err |-> err, block |-> pos \div BlockSize, from |-> offs,
         upper |-> IF offs > 0 /\ lbuf < BlockSize - offs
                   THEN offs + lbuf - 1 ELSE -1,
         lbuf |-> lbuf]

\* one turn of the loop of ReadAt: GetObject of the block, then ReadAtLeast
\* of its body into the rest of the buffer; every outcome: the error, readn,
\* and the bytes put in the buffer
AwsReadTurn(objs, key, block, from, upper, readn, lbuf, lenbuf, buf) ==
    LET res == GetObject(objs, S3Prefix \o blockKey(key, block), from, upper)
        rn == IF readn > lbuf THEN lbuf ELSE readn
    IN  IF res.err # Nil
        THEN {[err |-> res.err, readn |-> readn, data |-> <<>>]}
        ELSE {[err |-> rd.err, readn |-> rn, data |-> rd.data] :
                rd \in ReadAtLeast(res.body, lenbuf - Len(buf), rn)}

\* the loop of ReadAt over the blocks: one GetObject per block; the Range
\* (from, upper) is sent with the first request only; every outcome
RECURSIVE AwsReadBlocks(_, _, _, _, _, _, _, _, _)
AwsReadBlocks(objs, key, block, from, upper, readn, lbuf, lenbuf, buf) ==
    IF lbuf > 0
    THEN UNION {IF turn.err # Nil THEN {[err |-> turn.err, buf |-> <<>>]}
                ELSE AwsReadBlocks(objs, key, block + 1, 0, -1, turn.readn,
                                   lbuf - Len(turn.data), lenbuf,
                                   buf \o turn.data) :
                  turn \in AwsReadTurn(objs, key, block, from, upper, readn,
                                       lbuf, lenbuf, buf)}
    ELSE {[err |-> Nil, buf |-> buf]}

\* ReadAt with no other request between its own, every outcome: the error,
\* and the bytes counted as read
AwsReadAtRes(t, objs, key, lenbuf, pos) ==
    LET h == AwsReadAtHead(t, key, lenbuf, pos) IN
    IF h.err # Nil THEN {[err |-> h.err, buf |-> <<>>]}
    ELSE AwsReadBlocks(objs, key, h.block, h.from, h.upper, BlockSize,
                       h.lbuf, lenbuf, <<>>)

\* ReadAt, first request: the test of pos and getInfo; ReadAt returns here
\* on an error and when there is no byte to read
AwsReadAtCall(p, key, lenbuf, pos) ==
    /\ backend = "aws"
    /\ inflight[p] = Idle
    /\ LET h == AwsReadAtHead(dyn, key, lenbuf, pos) IN
       IF h.err # Nil \/ h.lbuf <= 0
       THEN /\ last' = Returned("ReadAt", key, pos, lenbuf, 0, h.err)
            /\ UNCHANGED inflight
       ELSE /\ inflight' = [inflight EXCEPT ![p] =
                  [op |-> "ReadAt", key |-> key, pos |-> pos,
                   lenbuf |-> lenbuf, block |-> h.block, from |-> h.from,
                   upper |-> h.upper, readn |-> BlockSize, lbuf |-> h.lbuf,
                   buf |-> <<>>]]
            /\ UNCHANGED last
    /\ UNCHANGED <<backend, digest, db, dyn, s3, now, wlog>>

\* ReadAt, one turn of the block loop: one GetObject; an error ends the
\* call with 0 and the bytes put in the buffer so far left there; the call
\* returns the count of the bytes read when none is left to read
AwsReadAtGet(p) ==
    /\ backend = "aws"
    /\ inflight[p].op = "ReadAt"
    /\ \E turn \in AwsReadTurn(s3, inflight[p].key, inflight[p].block,
                                inflight[p].from, inflight[p].upper,
                                inflight[p].readn, inflight[p].lbuf,
                                inflight[p].lenbuf, inflight[p].buf) :
       LET c == inflight[p]
           buf == c.buf \o turn.data
           lbuf == c.lbuf - Len(turn.data)
       IN  IF turn.err # Nil
           THEN /\ last' = [Returned("ReadAt", c.key, c.pos, c.lenbuf, 0,
                                     turn.err) EXCEPT !.buf = buf]
                /\ inflight' = [inflight EXCEPT ![p] = Idle]
           ELSE IF lbuf > 0
           THEN /\ inflight' = [inflight EXCEPT ![p].block = c.block + 1,
                                                ![p].from = 0,
                                                ![p].upper = -1,
                                                ![p].readn = turn.readn,
                                                ![p].lbuf = lbuf,
                                                ![p].buf = buf]
                /\ UNCHANGED last
           ELSE /\ last' = [Returned("ReadAt", c.key, c.pos, c.lenbuf,
                                     Len(buf), Nil) EXCEPT !.buf = buf]
                /\ inflight' = [inflight EXCEPT ![p] = Idle]
    /\ UNCHANGED <<backend, digest, db, dyn, s3, now, wlog>>

\* ReadAt, a GetObject request fails with an error of the service other
\* than NoSuchKey: ReadAt returns 0 and the error, the bytes put in the
\* buffer so far left there
AwsReadAtErr(p) ==
    /\ backend = "aws"
    /\ inflight[p].op = "ReadAt"
    /\ LET c == inflight[p] IN
       last' = [Returned("ReadAt", c.key, c.pos, c.lenbuf, 0, StoreErr)
                  EXCEPT !.buf = c.buf]
    /\ inflight' = [inflight EXCEPT ![p] = Idle]
    /\ UNCHANGED <<backend, digest, db, dyn, s3, now, wlog>>

\* what Stat returns
AwsStatRes(t, key) ==
    LET got == getInfo(t, key)
        fileInfo == got.fileInfo
    IN  IF got.err # Nil THEN [err |-> got.err, stat |-> NoStat]
        ELSE [err |-> Nil,
              stat |-> [Name |-> fileInfo.Name,
                        ContentType |-> fileInfo.ContentType,
                        Hash |-> fileInfo.Hash,
                        Length |-> fileInfo.Length,
                        Next |-> fileInfo.CurPos,
                        Created |-> fileInfo.Created,
                        ExpiresAt |-> got.ExpiresAt]]

AwsStat(key) ==
    /\ backend = "aws"
    /\ LET res == AwsStatRes(dyn, key)
       IN  last' = [Returned("Stat", key, 0, 0, 0, res.err)
                      EXCEPT !.stat = res.stat]
    /\ UNCHANGED <<backend, digest, db, dyn, s3, now, inflight, wlog>>

(* ------------------------------------------------------------------ *)
(* The callers                                                        *)
(* ------------------------------------------------------------------ *)

\* declared lengths: every length up to MaxLen, or (narrow) only the
\* one-block-and-two-byte-tail file
Sizes(wide) == IF wide THEN 0..MaxLen ELSE {BlockSize + 2}

\* expected hashes: none, or (wide) the digest of one of the contents
Hashes(wide, size) ==
    {<<>>} \cup (IF wide THEN {HashOf(Data(c, 0, size)) : c \in Contents}
                 ELSE {})

\* write offsets: negative, aligned and misaligned, or (narrow) block starts
Positions(wide) == IF wide THEN (-1)..(MaxLen - 1) ELSE {0, BlockSize}

\* data lengths: empty to the longest file, or (narrow) a tail, a block and
\* the whole file
DataLens(wide) ==
    IF wide THEN 0..MaxLen ELSE {2, BlockSize, BlockSize + 2}

\* the callers read with a buffer that holds any file
BufLens == {MaxLen + 1}

ReadPositions == {0}

\* the calls of callers ps on keys ks, writing bytes of the contents cs;
\* seq: one call at a time
Calls(ks, ps, cs, wide, seq) ==
    \/ \E key \in ks : \E size \in Sizes(wide) :
         \E hash \in Hashes(wide, size) : \E fail \in BOOLEAN :
           BadgerCreateFile(key, size, hash, fail)
    \/ \E key \in ks : \E fail \in BOOLEAN : BadgerDeleteFile(key, fail)
    \/ \E key \in ks : \E pos \in Positions(wide) : \E n \in DataLens(wide) :
         \E c \in cs : \E fail \in BOOLEAN :
           BadgerWriteAt(key, pos, Data(c, pos, n), fail)
    \/ \E key \in ks : \E lenbuf \in BufLens : \E pos \in ReadPositions :
         BadgerReadAt(key, lenbuf, pos)
    \/ \E key \in ks : BadgerStat(key)
    \/ \E key \in ks : \E size \in Sizes(wide) :
         \E hash \in Hashes(wide, size) : AwsCreateFile(key, size, hash)
    \/ \E p \in ps : \E key \in ks :
         (seq => \A q \in Procs : inflight[q] = Idle)
         /\ AwsDeleteFileCall(p, key)
    \/ \E p \in ps : AwsDeleteFileList(p)
    \/ \E p \in ps : AwsDeleteFileListErr(p)
    \/ \E p \in ps : AwsDeleteFileObjects(p)
    \/ \E p \in ps : \E key \in ks : \E pos \in Positions(wide) :
         \E n \in DataLens(wide) : \E c \in cs :
           (seq => \A q \in Procs : inflight[q] = Idle)
           /\ Len(wlog[key].writes) < MaxLog
           /\ AwsWriteAtCall(p, key, pos, Data(c, pos, n))
    \/ \E p \in ps : AwsWriteAtPut(p)
    \/ \E p \in ps : \E fail \in BOOLEAN : AwsWriteAtFinish(p, fail)
    \/ \E p \in ps : AwsAbort(p)
    \/ \E p \in ps : \E key \in ks : \E lenbuf \in BufLens :
         \E pos \in ReadPositions :
           (seq => \A q \in Procs : inflight[q] = Idle)
           /\ AwsReadAtCall(p, key, lenbuf, pos)
    \/ \E p \in ps : AwsReadAtGet(p)
    \/ \E p \in ps : AwsReadAtErr(p)
    \/ \E key \in ks : AwsStat(key)

\* one caller, one key, every kind of argument; the caller writes the first
\* content, and expects no hash, its hash or the hash of the other content
Next == Calls({KeyA}, {1}, {1}, TRUE, TRUE)

Spec == Init /\ [][Next]_vars

\* one caller, two keys
NextKeys == Calls(Keys, {1}, {1}, FALSE, TRUE)

SpecKeys == Init /\ [][NextKeys]_vars

\* read offsets from below 0 to beyond the longest file, and buffers from
\* empty to longer than any file
WideReadPositions == (-1)..(MaxLen + 1)

WideBufLens == 0..(MaxLen + 1)

\* one caller, one key, every kind of argument, and reads at every offset
\* with every buffer length
NextRead ==
    \/ Calls({KeyA}, {1}, {1}, TRUE, TRUE)
    \/ \E lenbuf \in WideBufLens : \E pos \in WideReadPositions :
         BadgerReadAt(KeyA, lenbuf, pos)
    \/ \E lenbuf \in WideBufLens : \E pos \in WideReadPositions :
         (\A q \in Procs : inflight[q] = Idle)
         /\ AwsReadAtCall(1, KeyA, lenbuf, pos)

SpecRead == Init /\ [][NextRead]_vars

\* the length the upload handler passes to CreateFile for a body of unknown
\* length sent with no X-File-Length header
UnknownLength == -1

\* one caller, one key, every kind of argument, and files declared with the
\* length of a body of unknown length
NextSizes ==
    \/ Calls({KeyA}, {1}, {1}, TRUE, TRUE)
    \/ BadgerCreateFile(KeyA, UnknownLength, <<>>, FALSE)
    \/ AwsCreateFile(KeyA, UnknownLength, <<>>)

SpecSizes == Init /\ [][NextSizes]_vars

\* the storage handle is closed and opened again between two calls: what is
\* stored stays, nothing else is carried over
Reopen ==
    /\ \A p \in Procs : inflight[p] = Idle
    /\ last' = Returned("Open", <<>>, 0, 0, 0, Nil)
    /\ wlog' = [k \in Keys |->
                  IF /\ wlog[k].clean
                     /\ wlog[k].writes # <<>>
                     /\ (IF backend = "badger" THEN BadgerHas(db, infoKey(k))
                         ELSE infoKey(k) \in DOMAIN dyn)
                  THEN [wlog[k] EXCEPT !.reopened = TRUE]
                  ELSE wlog[k]]
    /\ UNCHANGED <<backend, digest, db, dyn, s3, now, inflight>>

\* one caller, one key, every kind of argument, with restarts between calls
NextRestart == Calls({KeyA}, {1}, {1}, TRUE, TRUE) \/ Reopen

SpecRestart == Init /\ [][NextRestart]_vars

\* two callers at once on one key
\* CreateFile on the embedded store, when calls overlap: db.Update opens a
\* transaction on the state at its start and runs the function, which
\* returns ErrExists when the metadata key is there and otherwise sets it
\* in the transaction's pending writes
BadgerCreateFileBegin(p, key, size, hash) ==
    /\ backend = "badger"
    /\ inflight[p] = Idle
    /\ LET ikey == infoKey(key)
           fileInfo == NewInfo("a.bin", "application/octet-stream",
                               size, hash)
       IN  IF BadgerHas(db, ikey)
           THEN /\ last' = Returned("CreateFile", key, 0, 0, 0, ErrExists)
                /\ UNCHANGED inflight
           ELSE /\ inflight' = [inflight EXCEPT ![p] =
                      [op |-> "CreateFile", key |-> key,
                       fileInfo |-> fileInfo, data |-> Marshal(fileInfo),
                       exp |-> now + TTL, conflict |-> FALSE]]
                /\ UNCHANGED last
    /\ UNCHANGED <<backend, digest, db, dyn, s3, now, wlog>>

\* a transaction has committed a write of ikey: the transactions in flight
\* that have read ikey are in conflict from now on, whatever is done to the
\* key later
CommittedWrite(infl, p, key) ==
    [q \in Procs |->
       IF q = p THEN Idle
       ELSE IF infl[q].op = "CreateFile" /\ infl[q].key = key
         THEN [infl[q] EXCEPT !.conflict = TRUE]
       ELSE infl[q]]

\* the commit that ends db.Update: the transaction read the metadata key
\* and found it absent; when another transaction has committed a write of
\* that key since this one began, the commit is refused with the store's
\* conflict error, which CreateFile returns as it is; otherwise the pending
\* write is applied
BadgerCreateFileCommit(p) ==
    /\ backend = "badger"
    /\ inflight[p].op = "CreateFile"
    /\ LET key == inflight[p].key
           ikey == infoKey(key)
           conflict == inflight[p].conflict
       IN  /\ db' = IF conflict THEN db
                    ELSE Put(db, ikey, [val |-> inflight[p].data,
                                        exp |-> inflight[p].exp])
           /\ last' = Returned("CreateFile", key, 0, 0, 0,
                               IF conflict THEN StoreErr ELSE Nil)
           /\ wlog' = IF conflict THEN wlog ELSE LogCreate(key)
           /\ inflight' = IF conflict
                          THEN [inflight EXCEPT ![p] = Idle]
                          ELSE CommittedWrite(inflight, p, key)
    /\ UNCHANGED <<backend, digest, dyn, s3, now>>

\* several callers create the same key at once, and look at the result
NextCreate ==
    \/ \E p \in Procs : \E size \in Sizes(TRUE) :
         \E hash \in Hashes(TRUE, size) :
           BadgerCreateFileBegin(p, KeyA, size, hash)
    \/ \E p \in Procs : BadgerCreateFileCommit(p)
    \/ BadgerStat(KeyA)
    \/ \E size \in Sizes(TRUE) : \E hash \in Hashes(TRUE, size) :
         AwsCreateFile(KeyA, size, hash)
    \/ AwsStat(KeyA)

SpecCreate == Init /\ [][NextCreate]_vars

\* the last instant of the wall clock looked at
MaxNow == 4

\* the wall clock advances
Tick ==
    /\ now < MaxNow
    /\ now' = now + 1
    /\ UNCHANGED <<backend, digest, db, dyn, s3, inflight, last, wlog>>

\* the table's time-to-live attribute: some time after the instant in TTL
\* has passed, the table drops the item
DynExpire ==
    /\ backend = "aws"
    /\ \E k \in DOMAIN dyn :
         /\ dyn[k].TTL <= now
         /\ dyn' = Del(dyn, k)
    /\ UNCHANGED <<backend, digest, db, s3, now, inflight, last, wlog>>

\* one caller and one key, while time passes
NextTime ==
    \/ Calls({KeyA}, {1}, {1}, FALSE, TRUE)
    \/ Tick
    \/ DynExpire

SpecTime == Init /\ [][NextTime]_vars

NextConc == Calls({KeyA}, Procs, Contents, FALSE, FALSE)

SpecConc == Init /\ [][NextConc]_vars

(* ------------------------------------------------------------------ *)
(* Observations of a state                                            *)
(* ------------------------------------------------------------------ *)

\* the metadata record of key k is stored (on the backend in use), the
\* embedded store being d and the metadata table t
HasMetaIn(d, t, k) ==
    IF backend = "badger" THEN BadgerHas(d, infoKey(k))
    ELSE infoKey(k) \in DOMAIN t

HasMeta(k) == HasMetaIn(db, dyn, k)

\* the stored metadata record of key k
MetaIn(d, t, k) ==
    IF backend = "badger" THEN Unmarshal(d[infoKey(k)].val)
    ELSE Unmarshal(t[infoKey(k)].Value)

MetaOf(k) == MetaIn(db, dyn, k)

\* what Stat(k) returns
StatIn(d, t, k) ==
    IF backend = "badger" THEN BadgerStatTxn(d, k) ELSE AwsStatRes(t, k)

StatNow(k) == StatIn(db, dyn, k)

\* what ReadAt(k, buf, pos) can return in this state, for a buffer of
\* lenbuf: every outcome
ReadNow(k, lenbuf, pos) ==
    IF backend = "badger" THEN {BadgerReadAtRes(db, k, lenbuf, pos)}
    ELSE AwsReadAtRes(dyn, s3, k, lenbuf, pos)

\* the block records of key k: the numbers of the stored blocks
BlocksOf(k) ==
    IF backend = "badger"
    THEN {i \in 0..MaxLen : BadgerHas(db, blockKey(k, i))}
    ELSE {i \in 0..MaxLen : (S3Prefix \o blockKey(k, i)) \in DOMAIN s3}

\* the block records of key k, as pairs of block number and content
BlockRecsIn(d, objs, k) ==
    IF backend = "badger"
    THEN {<<i, d[blockKey(k, i)].val>> :
             i \in {j \in 0..MaxLen : BadgerHas(d, blockKey(k, j))}}
    ELSE {<<i, objs[S3Prefix \o blockKey(k, i)].Body>> :
             i \in {j \in 0..MaxLen :
                       (S3Prefix \o blockKey(k, j)) \in DOMAIN objs}}

RECURSIVE ConcatData(_)
ConcatData(ws) ==
    IF ws = <<>> THEN <<>> ELSE Head(ws).data \o ConcatData(Tail(ws))

\* the bytes of the writes accepted on key k, in the order accepted
Written(k) == ConcatData(wlog[k].writes)

\* every accepted write was a multiple of BlockSize long or ended at L
LegalLog(k, L) ==
    \A i \in 1..Len(wlog[k].writes) :
        LET w == wlog[k].writes[i] IN
        Len(w.data) % BlockSize = 0 \/ w.pos + Len(w.data) = L

\* a write of n bytes at pos is legal on the file with metadata fi
LegalWrite(fi, pos, n) ==
    /\ pos = fi.CurPos
    /\ pos + n <= fi.Length
    /\ (n % BlockSize = 0 \/ pos + n = fi.Length)

(* ------------------------------------------------------------------ *)
(* Claims                                                             *)
(* ------------------------------------------------------------------ *)

\* C1: after CreateFile and a sequence of legal writes (each at the current
\* CurPos, each a multiple of BlockSize long except a last one that ends at
\* Length) that add up to Length >= 1, Stat reports Next = FileComplete and
\* ReadAt from 0 returns the concatenation of the written bytes; and no
\* legal write of such a sequence is turned down by the argument checks.
C1_RoundTrip ==
    \A k \in Keys :
      (wlog[k].clean /\ HasMeta(k) /\ LegalLog(k, MetaOf(k).Length)) =>
        LET fi == MetaOf(k)
            bytes == Written(k)
        IN  /\ (fi.Length >= 1 /\ Len(bytes) = fi.Length) =>
                 /\ StatNow(k).err = Nil
                 /\ StatNow(k).stat.Next = FileComplete
                 /\ ReadNow(k, fi.Length, 0) = {[err |-> Nil, buf |-> bytes]}
            /\ (/\ last.op = "WriteAt"
                /\ last.key = k
                /\ fi.CurPos >= 0
                /\ LegalWrite(fi, last.pos, Len(last.data))) =>
                 last.err \in {Nil, ErrInvalidHash, StoreErr}

\* a file of a block and a two-byte tail, written in two calls, read back
C1_Witness ==
    /\ wlog[KeyA].clean
    /\ Len(wlog[KeyA].writes) = 2
    /\ HasMeta(KeyA)
    /\ MetaOf(KeyA).Length = BlockSize + 2
    /\ MetaOf(KeyA).CurPos = FileComplete
    /\ last.op = "ReadAt"
    /\ last.err = Nil
    /\ last.buf = Written(KeyA)
    /\ Len(last.buf) = BlockSize + 2

\* C2: under any interleaving of WriteAt calls on one key, every successful
\* write started at the CurPos stored when it committed: the byte ranges of
\* the successful writes are contiguous from 0 (no overlap, no gap), and the
\* stored CurPos never decreases while the file stays OPEN.
C2_Contiguous ==
    \A k \in Keys :
      wlog[k].clean =>
        /\ \A i \in 1..Len(wlog[k].writes) :
             wlog[k].writes[i].pos =
                 Len(ConcatData(SubSeq(wlog[k].writes, 1, i - 1)))
        /\ (HasMeta(k) /\ MetaOf(k).CurPos >= 0) =>
             MetaOf(k).CurPos >= Len(Written(k))

\* C3: a WriteAt on an OPEN file at pos = CurPos whose length is not a
\* multiple of BlockSize and which does not end at Length fails with
\* ErrInvalidSize (a store failure aside) and leaves metadata and blocks
\* unchanged.
C3_PartialRejected ==
    [][(/\ last' # last
        /\ last'.op = "WriteAt"
        /\ HasMeta(last'.key)
        /\ MetaOf(last'.key).CurPos >= 0
        /\ last'.pos = MetaOf(last'.key).CurPos
        /\ Len(last'.data) % BlockSize # 0
        /\ last'.pos + Len(last'.data) # MetaOf(last'.key).Length)
       => (/\ last'.err \in {ErrInvalidSize, StoreErr}
           /\ db' = db
           /\ dyn' = dyn)]_vars

\* C4: of two WriteAt calls on one key racing at the same pos = CurPos only
\* one succeeds: no two successful writes of one file start at the same pos.
C4_OneWinner ==
    \A k \in Keys :
      wlog[k].clean =>
        \A i, j \in 1..Len(wlog[k].writes) :
            i # j => wlog[k].writes[i].pos # wlog[k].writes[j].pos

\* the WriteAt that has just returned (last') was, in the state it was
\* called in, the finalizing write of last'.key: the file OPEN, pos a block
\* boundary equal to CurPos, and pos + len(data) = Length
Finalizing ==
    /\ last' # last
    /\ last'.op = "WriteAt"
    /\ wlog[last'.key].clean
    /\ HasMeta(last'.key)
    /\ MetaOf(last'.key).CurPos >= 0
    /\ last'.pos = MetaOf(last'.key).CurPos
    /\ last'.pos % BlockSize = 0
    /\ last'.pos + Len(last'.data) = MetaOf(last'.key).Length

\* the hex digest of the bytes accepted so far followed by those of the
\* WriteAt that has just returned
DigestWith == toHex(HashOf(Written(last'.key) \o last'.data))

\* C5: on the finalizing WriteAt, if CreateFile supplied a hash equal to the
\* digest of the data the write succeeds and Stat.Hash echoes the supplied
\* hash; if no hash was supplied the computed digest becomes Stat.Hash; in
\* both cases the stored CurPos is FileComplete and CurHash is empty.
C5_Finalize ==
    [][(Finalizing /\ MetaOf(last'.key).Hash \in {<<>>, DigestWith})
       => (/\ last'.err \in {Nil, StoreErr}
           /\ last'.err = Nil =>
                /\ last'.ret = FileComplete
                /\ StatIn(db', dyn', last'.key).stat.Hash = DigestWith
                /\ MetaIn(db', dyn', last'.key).CurPos = FileComplete
                /\ MetaIn(db', dyn', last'.key).CurHash = <<>>)]_vars

\* a two-call upload has just been completed and the record holds its digest
C5_Witness ==
    /\ last.op = "WriteAt"
    /\ last.err = Nil
    /\ last.ret = FileComplete
    /\ wlog[last.key].clean
    /\ Len(wlog[last.key].writes) = 2
    /\ HasMeta(last.key)
    /\ MetaOf(last.key).CurPos = FileComplete
    /\ MetaOf(last.key).CurHash = <<>>
    /\ MetaOf(last.key).Hash = toHex(HashOf(Written(last.key)))

\* C6 (as the code has it): if CreateFile supplied a hash that does not match
\* the data, the finalizing WriteAt returns ErrInvalidHash and leaves the
\* metadata record as it was before the call: Stat.Next stays at the
\* pre-write CurPos and CurHash at its pre-write value.
C6_MismatchKeepsRecord ==
    [][(Finalizing /\ MetaOf(last'.key).Hash \notin {<<>>, DigestWith})
       => (/\ last'.err \in {ErrInvalidHash, StoreErr}
           /\ HasMetaIn(db', dyn', last'.key)
           /\ MetaIn(db', dyn', last'.key) = MetaOf(last'.key)
           /\ StatIn(db', dyn', last'.key).stat.Next = last'.pos)]_vars

\* C6 (as the spec has it): after the finalizing WriteAt has returned
\* ErrInvalidHash, Stat.Next is at Length and CurHash is present in the
\* metadata record.
C6_MismatchAtLength ==
    [][(Finalizing /\ MetaOf(last'.key).Hash \notin {<<>>, DigestWith})
       => (/\ last'.err \in {ErrInvalidHash, StoreErr}
           /\ last'.err = ErrInvalidHash =>
                /\ StatIn(db', dyn', last'.key).stat.Next = MetaOf(last'.key).Length
                /\ MetaIn(db', dyn', last'.key).CurHash # <<>>)]_vars

\* a second, finalizing write has been turned down for its hash and the
\* record still shows the first write only
C6_Witness ==
    /\ last.op = "WriteAt"
    /\ last.err = ErrInvalidHash
    /\ last.pos = BlockSize
    /\ Len(last.data) = 2
    /\ HasMeta(last.key)
    /\ MetaOf(last.key).Length = BlockSize + 2
    /\ MetaOf(last.key).CurPos = BlockSize
    /\ MetaOf(last.key).CurHash # <<>>

\* C7: on the embedded backend a WriteAt that returns any error leaves the
\* store, hence the metadata record and every block record of the key, as it
\* was before the call.
C7_BadgerAtomic ==
    [][(/\ backend = "badger"
        /\ last' # last
        /\ last'.op = "WriteAt"
        /\ last'.err # Nil)
       => db' = db]_vars

\* a write of a whole file has been turned down for its hash, its blocks
\* already set in the transaction, and the store holds no block of the key
C7_Witness ==
    /\ backend = "badger"
    /\ last.op = "WriteAt"
    /\ last.err = ErrInvalidHash
    /\ Len(last.data) = BlockSize + 2
    /\ HasMeta(last.key)
    /\ MetaOf(last.key).CurPos = 0
    /\ BlocksOf(last.key) = {}

\* a WriteAt of process p on the object-store backend ends in this step with
\* a failure after it has put a block and before its metadata update
CrashedWrite(p) ==
    /\ backend = "aws"
    /\ inflight[p].op = "WriteAt"
    /\ inflight[p].offs > 0
    /\ inflight'[p] = Idle
    /\ last'.err = StoreErr

\* C8: on the object-store backend, when a WriteAt fails after putting some
\* or all of its blocks and before the metadata update, Stat still shows the
\* pre-write CurPos; and once a single writer has re-issued its writes from
\* there and completed the file, the content read back and the Hash are
\* those of the bytes accepted, as for an upload with no failure.
C8_CrashRecovery ==
    [][/\ \A p \in Procs :
            CrashedWrite(p) =>
              /\ StatIn(db', dyn', inflight[p].key).err = Nil
              /\ StatIn(db', dyn', inflight[p].key).stat.Next = inflight[p].pos
              /\ MetaIn(db', dyn', inflight[p].key) = inflight[p].fileInfo
       /\ \A k \in Keys :
            (/\ backend = "aws"
             /\ wlog[k].crashed
             /\ wlog[k].clean
             /\ HasMeta(k)
             /\ MetaOf(k).CurPos = FileComplete) =>
              /\ Len(Written(k)) = MetaOf(k).Length
              /\ ReadNow(k, MetaOf(k).Length, 0)
                     = {[err |-> Nil, buf |-> Written(k)]}
              /\ StatNow(k).stat.Hash = toHex(HashOf(Written(k)))]_vars

\* a file whose upload met a failed WriteAt has been completed and read back
C8_Witness ==
    /\ backend = "aws"
    /\ wlog[KeyA].crashed
    /\ wlog[KeyA].clean
    /\ HasMeta(KeyA)
    /\ MetaOf(KeyA).CurPos = FileComplete
    /\ MetaOf(KeyA).Length = BlockSize + 2
    /\ Len(wlog[KeyA].writes) = 2
    /\ last.op = "ReadAt"
    /\ last.err = Nil
    /\ last.buf = Written(KeyA)

\* C9: after DeleteFile(K) returns nil on a present key, on either backend,
\* the metadata record and every block record of K are gone (Stat(K) returns
\* ErrNotFound), and the metadata and blocks of every other key are
\* unchanged.
C9_DeleteRemoves ==
    [][(/\ last' # last
        /\ last'.op = "DeleteFile"
        /\ last'.err = Nil
        /\ HasMeta(last'.key))
       => (/\ StatIn(db', dyn', last'.key).err = ErrNotFound
           /\ BlockRecsIn(db', s3', last'.key) = {}
           /\ \A k \in Keys \ {last'.key} :
                /\ HasMetaIn(db', dyn', k) = HasMeta(k)
                /\ HasMeta(k) => MetaIn(db', dyn', k) = MetaOf(k)
                /\ BlockRecsIn(db', s3', k) = BlockRecsIn(db, s3, k))]_vars

\* the WriteAt that has just returned (last') was called on a stored key at
\* a pos other than the Next that Stat reported
WrongPos ==
    /\ last' # last
    /\ last'.op = "WriteAt"
    /\ HasMeta(last'.key)
    /\ last'.pos # StatNow(last'.key).stat.Next

\* C10 (as the code has it): on an OPEN key, WriteAt with pos other than
\* Stat.Next returns ErrInvalidPos, for every pos and data; on a COMPLETE key
\* it returns ErrExists when pos is a block boundary and ErrInvalidPos when
\* pos is negative or off a block boundary.
C10_WrongPosOpen ==
    [][WrongPos =>
         IF StatNow(last'.key).stat.Next >= 0
         THEN last'.err = ErrInvalidPos
         ELSE last'.err = IF last'.pos >= 0 /\ last'.pos % BlockSize = 0
                          THEN ErrExists ELSE ErrInvalidPos]_vars

\* C10 (as the spec has it): on every key that is not ABSENT, WriteAt with
\* pos other than Stat.Next returns ErrInvalidPos.
C10_WrongPos ==
    [][WrongPos => last'.err = ErrInvalidPos]_vars

\* a write at 0 has been turned down on an OPEN file whose CurPos is one
\* block on
C10_Witness ==
    /\ last.op = "WriteAt"
    /\ last.err = ErrInvalidPos
    /\ last.pos = 0
    /\ last.data # <<>>
    /\ HasMeta(last.key)
    /\ MetaOf(last.key).CurPos = BlockSize

\* the WriteAt that has just returned (last') was called on a COMPLETE file
WriteOnComplete ==
    /\ last' # last
    /\ last'.op = "WriteAt"
    /\ HasMeta(last'.key)
    /\ MetaOf(last'.key).CurPos = FileComplete

\* nothing stored has changed in this step
StoresUnchanged == db' = db /\ dyn' = dyn /\ s3' = s3

\* C11 (as the code has it): a COMPLETE file rejects every WriteAt whose pos
\* is a non-negative multiple of BlockSize with ErrExists, whatever the data,
\* and every WriteAt with another pos with ErrInvalidPos; the call changes
\* neither metadata (expiry included) nor blocks.
C11_CompleteRejects ==
    [][WriteOnComplete =>
         /\ last'.err = IF last'.pos >= 0 /\ last'.pos % BlockSize = 0
                        THEN ErrExists ELSE ErrInvalidPos
         /\ last'.ret = InvalidPos
         /\ StoresUnchanged]_vars

\* C11 (as the spec has it): a COMPLETE file rejects every WriteAt with
\* ErrExists, whatever pos and data, and the call changes nothing.
C11_CompleteAlwaysExists ==
    [][WriteOnComplete => (last'.err = ErrExists /\ StoresUnchanged)]_vars

\* a write at 0 has been turned down with ErrExists on a complete file,
\* which still reads back as written
C11_Witness ==
    /\ last.op = "WriteAt"
    /\ last.err = ErrExists
    /\ last.pos = 0
    /\ last.data # <<>>
    /\ wlog[last.key].clean
    /\ HasMeta(last.key)
    /\ MetaOf(last.key).CurPos = FileComplete
    /\ MetaOf(last.key).Length = BlockSize + 2
    /\ ReadNow(last.key, BlockSize + 2, 0)
           = {[err |-> Nil, buf |-> Written(last.key)]}

\* C12 (as the code has it): an OPEN file rejects every ReadAt with pos >= 0
\* with ErrIncomplete, for every buffer, after any number of non-final
\* writes; a ReadAt with pos < 0 is rejected with ErrInvalidPos. Nothing is
\* read.
C12_OpenRejectsRead ==
    \A k \in Keys :
      (HasMeta(k) /\ MetaOf(k).CurPos >= 0) =>
        \A pos \in WideReadPositions : \A lenbuf \in WideBufLens :
          ReadNow(k, lenbuf, pos) =
              {[err |-> IF pos < 0 THEN ErrInvalidPos ELSE ErrIncomplete,
                buf |-> <<>>]}

\* C12 (as the spec has it): an OPEN file rejects every ReadAt with
\* ErrIncomplete, for every pos and buffer.
C12_OpenAlwaysIncomplete ==
    \A k \in Keys :
      (HasMeta(k) /\ MetaOf(k).CurPos >= 0) =>
        \A pos \in WideReadPositions : \A lenbuf \in WideBufLens :
          \A res \in ReadNow(k, lenbuf, pos) : res.err = ErrIncomplete

\* a read in the middle of the first block has been turned down on a file
\* with one block written and its tail still to come
C12_Witness ==
    /\ last.op = "ReadAt"
    /\ last.err = ErrIncomplete
    /\ last.pos = 1
    /\ last.buf = <<>>
    /\ HasMeta(last.key)
    /\ MetaOf(last.key).CurPos = BlockSize
    /\ Len(wlog[last.key].writes) = 1

\* the WriteAt, ReadAt or Stat that has just returned (last') was called on
\* a key in state ABSENT
CallOnAbsent ==
    /\ last' # last
    /\ last'.op \in {"WriteAt", "ReadAt", "Stat"}
    /\ ~HasMeta(last'.key)

\* the pos of the call that has just returned is one the operation turns
\* down before it looks for the key
PosTurnedDown ==
    \/ last'.op = "WriteAt" /\ (last'.pos < 0 \/ last'.pos % BlockSize # 0)
    \/ last'.op = "ReadAt" /\ last'.pos < 0

\* C13 (as the code has it): on a key in state ABSENT, Stat, ReadAt with
\* pos >= 0 and WriteAt with pos a non-negative multiple of BlockSize return
\* ErrNotFound; ReadAt with pos < 0 and WriteAt with pos negative or off a
\* block boundary return ErrInvalidPos; none of them creates a record.
C13_AbsentNotFound ==
    [][CallOnAbsent =>
         /\ last'.err = IF PosTurnedDown THEN ErrInvalidPos ELSE ErrNotFound
         /\ last'.buf = <<>>
         /\ ~HasMetaIn(db', dyn', last'.key)
         /\ StoresUnchanged]_vars

\* C13 (as the spec has it): on a key in state ABSENT, WriteAt, ReadAt and
\* Stat with any arguments return ErrNotFound and create no record.
C13_AbsentAlwaysNotFound ==
    [][CallOnAbsent =>
         /\ last'.err = ErrNotFound
         /\ ~HasMetaIn(db', dyn', last'.key)
         /\ StoresUnchanged]_vars

\* a write of a block at 0 has been turned down on a key that is not stored
C13_Witness ==
    /\ last.op = "WriteAt"
    /\ last.err = ErrNotFound
    /\ last.pos = 0
    /\ Len(last.data) = BlockSize
    /\ ~HasMeta(last.key)
    /\ BlocksOf(last.key) = {}

\* what ReadAt(K, buf, pos) is to return on a COMPLETE file of the given
\* bytes, for a buffer of lenbuf: min(lenbuf, Length - pos) bytes from pos
ExpectedRead(bytes, lenbuf, pos) ==
    IF pos < 0 \/ pos > Len(bytes) THEN [err |-> ErrInvalidPos, buf |-> <<>>]
    ELSE LET n == IF Len(bytes) - pos < lenbuf THEN Len(bytes) - pos
                  ELSE lenbuf
         IN  [err |-> Nil, buf |-> SubSeq(bytes, pos + 1, pos + n)]

\* C14: on a COMPLETE file, ReadAt(K, buf, pos) with 0 <= pos <= Length
\* returns n = min(len(buf), Length - pos) and the file bytes [pos, pos+n),
\* for every pos, block-aligned or not, and every buffer size; with
\* pos = Length it returns 0 without error, and with pos < 0 or pos > Length
\* it returns ErrInvalidPos.
C14_ReadAt ==
    \A k \in Keys :
      (/\ wlog[k].clean
       /\ HasMeta(k)
       /\ MetaOf(k).CurPos = FileComplete
       /\ Len(Written(k)) = MetaOf(k).Length) =>
        \A pos \in WideReadPositions : \A lenbuf \in WideBufLens :
          ReadNow(k, lenbuf, pos) = {ExpectedRead(Written(k), lenbuf, pos)}

\* the WriteAt that has just returned (last') was called on an OPEN file at
\* its CurPos, a block boundary, with data reaching beyond Length
WriteBeyondLength ==
    /\ last' # last
    /\ last'.op = "WriteAt"
    /\ HasMeta(last'.key)
    /\ MetaOf(last'.key).CurPos >= 0
    /\ last'.pos = MetaOf(last'.key).CurPos
    /\ last'.pos % BlockSize = 0
    /\ last'.pos + Len(last'.data) > MetaOf(last'.key).Length

\* C15: in every reachable state a stored metadata record has either
\* CurPos = FileComplete or 0 <= CurPos <= Length, InvalidPos is never
\* stored, and a WriteAt with pos + len(data) > Length is rejected with
\* ErrInvalidSize.
C15_CurPosInRange ==
    [][/\ \A k \in Keys :
            HasMetaIn(db', dyn', k) =>
              \/ MetaIn(db', dyn', k).CurPos = FileComplete
              \/ /\ 0 <= MetaIn(db', dyn', k).CurPos
                 /\ MetaIn(db', dyn', k).CurPos <= MetaIn(db', dyn', k).Length
       /\ WriteBeyondLength =>
            (last'.err = ErrInvalidSize /\ StoresUnchanged)]_vars

\* what a successful WriteAt that has just returned (last') is to return:
\* FileComplete when it brought the file to Length, pos + len(data) otherwise
ExpectedRet ==
    IF last'.pos + Len(last'.data) = MetaOf(last'.key).Length
    THEN FileComplete
    ELSE last'.pos + Len(last'.data)

\* C16: a successful WriteAt returns exactly the CurPos stored by that call,
\* pos + len(data) for a non-final write and FileComplete for the finalizing
\* write, and a Stat issued next reports Next equal to the returned value; a
\* failed WriteAt returns InvalidPos together with the error.
C16_ReturnValue ==
    [][(last' # last /\ last'.op = "WriteAt") =>
         IF last'.err = Nil
         THEN /\ HasMeta(last'.key)
              /\ last'.ret = ExpectedRet
              /\ last'.ret = MetaIn(db', dyn', last'.key).CurPos
              /\ StatIn(db', dyn', last'.key).stat.Next = last'.ret
         ELSE last'.ret = InvalidPos]_vars

\* this step is, or is part of, a DeleteFile call
DeleteStep ==
    \/ last' # last /\ last'.op = "DeleteFile"
    \/ \E p \in Procs : inflight[p].op = "DeleteFile"
    \/ \E p \in Procs : inflight'[p].op = "DeleteFile"

\* C17: once a file is COMPLETE it is immutable: under any sequence or
\* interleaving of CreateFile, WriteAt, ReadAt and Stat calls, on either
\* backend, its metadata stays COMPLETE with the same Hash and Length and
\* its block contents do not change, until DeleteFile removes it.
C17_CompleteImmutable ==
    [][\A k \in Keys :
         (/\ HasMeta(k)
          /\ MetaOf(k).CurPos = FileComplete
          /\ ~DeleteStep) =>
           /\ HasMetaIn(db', dyn', k)
           /\ MetaIn(db', dyn', k).CurPos = FileComplete
           /\ MetaIn(db', dyn', k).Hash = MetaOf(k).Hash
           /\ MetaIn(db', dyn', k).Length = MetaOf(k).Length
           /\ BlockRecsIn(db', s3', k) = BlockRecsIn(db, s3, k)]_vars

\* C18: the hash state carried in CurHash makes the final digest independent
\* of how the upload was performed: for fixed file bytes, every split into
\* consecutive legal WriteAt calls, with the storage handle closed and
\* reopened between any two calls, ends COMPLETE with the Stat.Hash of a
\* single-call upload, and after a restart Stat reports Next equal to the
\* last committed CurPos.
C18_HashContinuation ==
    \A k \in Keys :
      (wlog[k].clean /\ HasMeta(k) /\ LegalLog(k, MetaOf(k).Length)) =>
        /\ StatNow(k).err = Nil
        /\ MetaOf(k).CurPos >= 0 =>
             /\ StatNow(k).stat.Next = Len(Written(k))
             /\ (/\ last.op = "WriteAt"
                 /\ last.key = k
                 /\ LegalWrite(MetaOf(k), last.pos, Len(last.data))) =>
                  last.err \in {Nil, ErrInvalidHash, StoreErr}
        /\ MetaOf(k).CurPos = FileComplete =>
             /\ Len(Written(k)) = MetaOf(k).Length
             /\ StatNow(k).stat.Hash = toHex(HashOf(Written(k)))

\* an upload in two calls with a restart after the first has been completed,
\* and Stat reports the digest of the whole file
C18_Witness ==
    /\ wlog[KeyA].clean
    /\ wlog[KeyA].reopened
    /\ Len(wlog[KeyA].writes) = 2
    /\ last.op = "Stat"
    /\ last.key = KeyA
    /\ last.err = Nil
    /\ last.stat.Next = FileComplete
    /\ last.stat.Length = BlockSize + 2
    /\ last.stat.Hash = toHex(HashOf(Data(1, 0, BlockSize + 2)))
    /\ StatNow(KeyA).stat = last.stat

\* C19: CreateFile on a key whose metadata exists (OPEN or COMPLETE) returns
\* ErrExists and has no side effect: the metadata record, its expiry and
\* all blocks are unchanged.
C19_CreateExists ==
    [][(/\ last' # last
        /\ last'.op = "CreateFile"
        /\ HasMeta(last'.key))
       => (last'.err = ErrExists /\ StoresUnchanged)]_vars

\* a CreateFile has been turned down on a file with one block written, and
\* the record still shows that write
C19_Witness ==
    /\ last.op = "CreateFile"
    /\ last.err = ErrExists
    /\ wlog[last.key].clean
    /\ Len(wlog[last.key].writes) = 1
    /\ HasMeta(last.key)
    /\ MetaOf(last.key).CurPos = BlockSize
    /\ MetaOf(last.key).CurHash # <<>>
    /\ BlocksOf(last.key) = {0}

\* process p's CreateFile returns in this step after its transaction ran
CreateCommits(p) ==
    /\ inflight[p].op = "CreateFile"
    /\ inflight'[p] = Idle

\* a CreateFile returns in this step without a pending transaction
CreateReturns ==
    /\ last' # last
    /\ last'.op = "CreateFile"
    /\ inflight' = inflight

\* C20: of the CreateFile calls that run concurrently for one absent key,
\* exactly one succeeds and the stored metadata is that caller's; every
\* other call gets ErrExists (and changes nothing).
C20_OneCreator ==
    [][/\ \A p \in Procs :
            CreateCommits(p) =>
              IF HasMeta(inflight[p].key)
              THEN last'.err = ErrExists /\ StoresUnchanged
              ELSE /\ last'.err = Nil
                   /\ HasMetaIn(db', dyn', inflight[p].key)
                   /\ MetaIn(db', dyn', inflight[p].key)
                        = inflight[p].fileInfo
       /\ CreateReturns =>
            IF HasMeta(last'.key)
            THEN last'.err = ErrExists /\ StoresUnchanged
            ELSE last'.err = Nil /\ HasMetaIn(db', dyn', last'.key)]_vars

\* C20, the part the code keeps: a CreateFile succeeds only on an absent
\* key and stores its caller's metadata, and no CreateFile changes a
\* record that is stored
C20_AtMostOneCreator ==
    [][/\ \A p \in Procs :
            CreateCommits(p) =>
              IF HasMeta(inflight[p].key)
              THEN last'.err # Nil /\ StoresUnchanged
              ELSE /\ last'.err = Nil
                   /\ MetaIn(db', dyn', inflight[p].key)
                        = inflight[p].fileInfo
       /\ CreateReturns =>
            IF HasMeta(last'.key)
            THEN last'.err = ErrExists /\ StoresUnchanged
            ELSE last'.err = Nil /\ HasMetaIn(db', dyn', last'.key)]_vars

\* two CreateFile calls overlapped: one is stored, the other has just
\* been refused while the first one's record stays
C20_Loser ==
    /\ backend = "badger"
    /\ last.op = "CreateFile"
    /\ last.err = StoreErr
    /\ HasMeta(KeyA)
    /\ \A p \in Procs : inflight[p] = Idle

\* a DeleteFile(k) returns in this step
DeleteReturns(k) ==
    \/ /\ backend = "badger"
       /\ last'.op = "DeleteFile"
       /\ last'.key = k
       /\ inflight' = inflight
       /\ (last' # last \/ db' # db)
    \/ \E p \in Procs :
         /\ inflight[p].op = "DeleteFile"
         /\ inflight[p].key = k
         /\ inflight'[p] = Idle

\* C21: DeleteFile is idempotent: on an absent key it returns nil and
\* changes nothing (no record of any key), and a DeleteFile(K) that follows
\* a successful DeleteFile(K) succeeds and leaves K absent.
C21_DeleteIdempotent ==
    [][\A k \in Keys :
         (DeleteReturns(k) /\ last'.err # StoreErr) =>
           /\ ~HasMeta(k) => (last'.err = Nil /\ StoresUnchanged)
           /\ (last.op = "DeleteFile" /\ last.key = k /\ last.err = Nil)
                => (/\ last'.err = Nil
                    /\ ~HasMetaIn(db', dyn', k)
                    /\ BlockRecsIn(db', s3', k) = {})]_vars

\* the expiry stored with the metadata record of key k
ExpiryIn(d, t, k) ==
    IF backend = "badger" THEN d[infoKey(k)].exp ELSE t[infoKey(k)].TTL

\* every record of store st that this step wrote has expiry e in field f
WrittenExpire(st, stNext, e, IsExp(_, _)) ==
    \A k \in DOMAIN stNext :
      (k \notin DOMAIN st \/ stNext[k] # st[k]) => IsExp(stNext[k], e)

BadgerExp(r, e) == r.exp = e
DynExp(r, e) == r.TTL = e
S3Exp(r, e) == r.Expires = e

\* C22: every successful CreateFile and WriteAt (non-final or finalizing)
\* leaves the metadata expiry at now + TTL, every metadata and block record
\* a call writes gets expiry now + TTL of the instant it is written, and
\* Stat.ExpiresAt is the expiry stored with the metadata record.
C22_TTLRefresh ==
    [][/\ (/\ last' # last
           /\ last'.op \in {"CreateFile", "WriteAt"}
           /\ last'.err = Nil)
          => (/\ HasMetaIn(db', dyn', last'.key)
              /\ ExpiryIn(db', dyn', last'.key) = now + TTL)
       /\ WrittenExpire(db, db', now + TTL, BadgerExp)
       /\ WrittenExpire(dyn, dyn', now + TTL, DynExp)
       /\ WrittenExpire(s3, s3', now + TTL, S3Exp)
       /\ (last' # last /\ last'.op = "Stat" /\ last'.err = Nil)
          => last'.stat.ExpiresAt = ExpiryIn(db, dyn, last'.key)]_vars

\* a file created at one instant was written at a later one, completed at a
\* third, and Stat has returned the expiry of the last write
C22_Witness ==
    /\ last.op = "Stat"
    /\ last.err = Nil
    /\ last.stat.Next = FileComplete
    /\ now = 3
    /\ last.stat.ExpiresAt = now + TTL
    /\ wlog[KeyA].clean
    /\ Len(wlog[KeyA].writes) = 2
    /\ \E i \in BlocksOf(KeyA) : \E j \in BlocksOf(KeyA) :
         /\ i # j
         /\ IF backend = "badger"
            THEN db[blockKey(KeyA, i)].exp < db[blockKey(KeyA, j)].exp
            ELSE s3[S3Prefix \o blockKey(KeyA, i)].Expires
                   < s3[S3Prefix \o blockKey(KeyA, j)].Expires

\* a metadata record of key k is in the store, expired or not
MetaStored(k) ==
    IF backend = "badger" THEN infoKey(k) \in DOMAIN db
    ELSE infoKey(k) \in DOMAIN dyn

\* C23: when the last CreateFile or WriteAt that stored the metadata of K
\* is more than TTL in the past (the stored expiry, its instant + TTL, is
\* before now), Stat(K) returns ErrNotFound, whatever Stat and ReadAt calls
\* were made since.
C23_Expires ==
    \A k \in Keys :
      (MetaStored(k) /\ now > ExpiryIn(db, dyn, k))
        => StatNow(k).err = ErrNotFound

\* this step is a CreateFile(key, "a.bin", "application/octet-stream", size,
\* hash) whose store operations all went through
CreateFileStep(key, size, hash) ==
    \/ BadgerCreateFile(key, size, hash, FALSE)
    \/ AwsCreateFile(key, size, hash)

\* C24: after a successful CreateFile(K, name, ctype, L, hash) on an absent
\* key, Stat(K) succeeds and reports Next = 0, Length = L, the name, the
\* content type and (in hex) the hash supplied, for every L >= 0.
C24_StatAfterCreate ==
    [][(last'.op = "CreateFile" /\ ~HasMeta(KeyA)) =>
         \A size \in Sizes(TRUE) : \A hash \in Hashes(TRUE, size) :
           CreateFileStep(KeyA, size, hash)
             => LET st == StatIn(db', dyn', KeyA) IN
                /\ last'.err = Nil
                /\ st.err = Nil
                /\ st.stat.Next = 0
                /\ st.stat.Length = size
                /\ st.stat.Name = "a.bin"
                /\ st.stat.ContentType = "application/octet-stream"
                /\ st.stat.Hash = toHex(hash)
                /\ fromHex(st.stat.Hash) = hash]_vars

\* a file of the greatest length was created with an expected hash, and
\* Stat has reported it
C24_Witness ==
    /\ last.op = "Stat"
    /\ last.err = Nil
    /\ last.stat.Next = 0
    /\ last.stat.Length = MaxLen
    /\ last.stat.Hash = toHex(HashOf(Data(1, 0, MaxLen)))
    /\ wlog[KeyA].clean
    /\ wlog[KeyA].writes = <<>>

(* ------------------------------------------------------------------ *)
(* The HTTP facade: cashierd                                          *)
(* ------------------------------------------------------------------ *)

StatusCreated == 201
StatusBadRequest == 400
StatusNotFound == 404
StatusConflict == 409
StatusInternalServerError == 500

\* the process that runs the storage calls of a handler, and the handler
Caller == 1
Handler == 2

\* the response of handler op: its status and the text of the error in it
Responded(op, key, pos, n, status, err) ==
    Returned(op, key, pos, n, status, err)

\* a handler has received its request and has made no storage call yet
Received(op) == inflight[Handler].op = op /\ last.op = op /\ last.ret = 0

\* the handler is in its upload loop, the storage call before has returned
InLoop(op) ==
    /\ inflight[Handler].op = op
    /\ inflight[Caller] = Idle
    /\ \/ last.op \in {"CreateFile", "WriteAt"}
       \/ op = "updateEntry" /\ Received(op)

\* pos of the upload loop: start, then what the WriteAt before returned
LoopPos ==
    IF last.op = "CreateFile" THEN 0
    ELSE IF last.op = "updateEntry" THEN inflight[Handler].start
    ELSE last.ret

\* io.ReadAtLeast(reader, buf, BlockSize) of the upload loop, on a request
\* body that holds the bytes of the file from offset from on, up to upto,
\* the loop being at pos; buf holds BlockSize bytes, the least count asked
\* for, so there is one outcome: a full buffer, or the end of the body
LoopRead(from, upto, pos) ==
    LET left == IF upto > pos THEN upto - pos ELSE 0
    IN  CHOOSE rd \in ReadAtLeast(Data(1, pos, left), BlockSize, BlockSize) :
          TRUE

\* the WriteAt of the upload loop
LoopWrite(key, data, fail) ==
    \/ BadgerWriteAt(key, LoopPos, data, fail)
    \/ ~fail /\ AwsWriteAtCall(Caller, key, LoopPos, data)

\* the status and error the handler returns when its loop is left: the
\* error is that of the last ReadAtLeast, the one of WriteAt is local to
\* the loop body
LoopResponse(rd) ==
    IF last.err # Nil \/ LoopPos = FileComplete \/ rd.err = Nil
    THEN [status |-> StatusCreated, err |-> Nil]
    ELSE [status |-> StatusInternalServerError, err |-> rd.err]

\* createEntry, a request that is not a form: the declared size is taken
\* from the headers
CreateEntryRequest(key, size) ==
    /\ \A q \in Procs : inflight[q] = Idle
    /\ inflight' = [inflight EXCEPT ![Handler] =
                      [op |-> "createEntry", key |-> key, size |-> size]]
    /\ last' = Responded("createEntry", key, 0, size, 0, Nil)
    /\ UNCHANGED <<backend, digest, db, dyn, s3, now, wlog>>

\* createEntry: CreateFile
CreateEntryCreate(fail) ==
    /\ Received("createEntry")
    /\ LET c == inflight[Handler] IN
       \/ BadgerCreateFile(c.key, c.size, <<>>, fail)
       \/ ~fail /\ AwsCreateFile(c.key, c.size, <<>>)

\* createEntry, one turn of the upload loop: a block is read and written
CreateEntryWrite(fail) ==
    /\ InLoop("createEntry")
    /\ last.err = Nil
    /\ LoopPos # FileComplete
    /\ LET c == inflight[Handler]
           rd == LoopRead(0, c.size, LoopPos)
       IN  /\ rd.err = Nil
           /\ LoopWrite(c.key, rd.data, fail)

\* the Range header "bytes=<Next>-<Length-1>/<Length>", as its numbers
RangeHeader(info) == <<info.Next, info.Length - 1, info.Length>>

\* createEntry, CreateFile has returned ErrExists: Stat, for the Range
\* header of the response
CreateEntryStat ==
    /\ inflight[Handler].op = "createEntry"
    /\ inflight[Caller] = Idle
    /\ last.op = "CreateFile"
    /\ last.err = ErrExists
    /\ \/ BadgerStat(inflight[Handler].key)
       \/ AwsStat(inflight[Handler].key)

\* createEntry, the file exists: the response, with the Range header
\* "bytes=<Next>-<Length-1>/<Length>" when Stat returned an incomplete file
CreateEntryConflict ==
    /\ inflight[Handler].op = "createEntry"
    /\ inflight[Caller] = Idle
    /\ last.op = "Stat"
    /\ LET c == inflight[Handler]
           range == IF last.err = Nil /\ last.stat.Next # FileComplete
                    THEN RangeHeader(last.stat) ELSE <<>>
       IN  last' = [Responded("createEntry", c.key, 0, c.size,
                              StatusConflict, ErrExists)
                      EXCEPT !.buf = range]
    /\ inflight' = [inflight EXCEPT ![Handler] = Idle]
    /\ UNCHANGED <<backend, digest, db, dyn, s3, now, wlog>>

\* createEntry: the response after another error of CreateFile, or after
\* the upload loop
CreateEntryRespond ==
    /\ InLoop("createEntry")
    /\ ~(last.op = "CreateFile" /\ last.err = ErrExists)
    /\ LET c == inflight[Handler]
           rd == LoopRead(0, c.size, LoopPos)
           res == IF last.op = "CreateFile" /\ last.err # Nil
                    THEN [status |-> StatusInternalServerError,
                          err |-> last.err]
                  ELSE LoopResponse(rd)
       IN  /\ \/ last.err # Nil
              \/ LoopPos = FileComplete
              \/ rd.err # Nil
           /\ last' = Responded("createEntry", c.key, 0, c.size,
                                res.status, res.err)
    /\ inflight' = [inflight EXCEPT ![Handler] = Idle]
    /\ UNCHANGED <<backend, digest, db, dyn, s3, now, wlog>>

\* the Content-Range headers of the requests: none, one that does not
\* parse, and "bytes <start>-<stop>/<length>"
ContentRanges ==
    {[kind |-> "none", start |-> 0, stop |-> 0, length |-> 0],
     [kind |-> "bad", start |-> 0, stop |-> 0, length |-> 0]}
    \cup [kind : {"bytes"}, start : {0, 1, BlockSize},
          stop : {BlockSize - 1, BlockSize, MaxLen - 1, MaxLen},
          length : {MaxLen - 1, MaxLen}]

\* updateEntry up to its upload loop: Stat, and the checks of Content-Range
\* against what Stat returned
UpdateEntryRequest(key, cr) ==
    /\ \A q \in Procs : inflight[q] = Idle
    /\ LET st == StatNow(key)
           info == st.stat
           res ==
             IF st.err = ErrNotFound
               THEN [status |-> StatusNotFound, range |-> <<>>]
             ELSE IF st.err # Nil
               THEN [status |-> StatusInternalServerError, range |-> <<>>]
             ELSE IF info.Next = FileComplete
               THEN [status |-> StatusConflict, range |-> <<>>]
             ELSE IF cr.kind # "bytes"
               THEN [status |-> StatusBadRequest,
                     range |-> RangeHeader(info)]
             ELSE IF cr.start # info.Next \/ cr.length # info.Length
               THEN [status |-> StatusBadRequest,
                     range |-> RangeHeader(info)]
             ELSE IF /\ cr.stop < cr.length - 1
                     /\ (cr.stop - cr.start + 1) % BlockSize # 0
               THEN [status |-> StatusBadRequest,
                     range |-> RangeHeader(info)]
             ELSE [status |-> 0, range |-> <<>>]
       IN  /\ last' = [Responded("updateEntry", key, cr.start, 0,
                                 res.status, Nil)
                         EXCEPT !.buf = res.range, !.stat = info]
           /\ inflight' =
                IF res.status # 0 THEN inflight
                ELSE [inflight EXCEPT ![Handler] =
                        [op |-> "updateEntry", key |-> key,
                         start |-> cr.start, stop |-> cr.stop,
                         length |-> cr.length]]
    /\ UNCHANGED <<backend, digest, db, dyn, s3, now, wlog>>

\* updateEntry, one turn of the upload loop; the body holds the bytes
\* start .. stop of the file
UpdateEntryWrite(fail) ==
    /\ InLoop("updateEntry")
    /\ last.err = Nil
    /\ LoopPos # FileComplete
    /\ LET c == inflight[Handler]
           rd == LoopRead(c.start, c.stop + 1, LoopPos)
       IN  /\ rd.err = Nil
           /\ LoopWrite(c.key, rd.data, fail)

\* updateEntry: the response after the loop
UpdateEntryRespond ==
    /\ InLoop("updateEntry")
    /\ LET c == inflight[Handler]
           rd == LoopRead(c.start, c.stop + 1, LoopPos)
           res == LoopResponse(rd)
       IN  /\ \/ last.err # Nil
              \/ LoopPos = FileComplete
              \/ rd.err # Nil
           /\ last' = Responded("updateEntry", c.key, c.start, 0,
                                res.status, res.err)
    /\ inflight' = [inflight EXCEPT ![Handler] = Idle]
    /\ UNCHANGED <<backend, digest, db, dyn, s3, now, wlog>>

\* deleteEntry: DeleteFile
DeleteEntry(key, fail) ==
    /\ \A q \in Procs : inflight[q] = Idle
    /\ \/ BadgerDeleteFile(key, fail)
       \/ ~fail /\ AwsDeleteFileCall(Caller, key)

\* the requests of one client on one key, one at a time
NextFacade ==
    \/ \E size \in 0..MaxLen : CreateEntryRequest(KeyA, size)
    \/ \E fail \in BOOLEAN : CreateEntryCreate(fail)
    \/ \E fail \in BOOLEAN : CreateEntryWrite(fail)
    \/ CreateEntryStat
    \/ CreateEntryConflict
    \/ CreateEntryRespond
    \/ \E cr \in ContentRanges : UpdateEntryRequest(KeyA, cr)
    \/ \E fail \in BOOLEAN : UpdateEntryWrite(fail)
    \/ UpdateEntryRespond
    \/ \E fail \in BOOLEAN : DeleteEntry(KeyA, fail)
    \/ AwsDeleteFileList(Caller)
    \/ AwsDeleteFileListErr(Caller)
    \/ AwsDeleteFileObjects(Caller)
    \/ AwsWriteAtPut(Caller)
    \/ \E fail \in BOOLEAN : AwsWriteAtFinish(Caller, fail)
    \/ AwsAbort(Caller)

SpecFacade == Init /\ [][NextFacade]_vars

\* C25: createEntry on an absent key with declared size L >= 1 and a body
\* of exactly L bytes, no storage call failing, answers with success and
\* leaves the file COMPLETE, for every L.
C25_UploadCompletes ==
    [][(/\ inflight[Handler].op = "createEntry"
        /\ inflight'[Handler] = Idle
        /\ inflight[Handler].size >= 1
        /\ last.op # "Stat"
        /\ last.err # StoreErr)
       => (/\ last'.ret = StatusCreated
           /\ StatNow(inflight[Handler].key).err = Nil
           /\ StatNow(inflight[Handler].key).stat.Next = FileComplete)]_vars

\* C25, the uploads the handler completes: those of a length that is a
\* multiple of BlockSize
C25_UploadOfBlocksCompletes ==
    [][(/\ inflight[Handler].op = "createEntry"
        /\ inflight'[Handler] = Idle
        /\ inflight[Handler].size >= 1
        /\ inflight[Handler].size % BlockSize = 0
        /\ last.op # "Stat"
        /\ last.err # StoreErr)
       => (/\ last'.ret = StatusCreated
           /\ StatNow(inflight[Handler].key).err = Nil
           /\ StatNow(inflight[Handler].key).stat.Next = FileComplete)]_vars

\* the Content-Range cr is one the resume of the file Stat described by
\* info may be made with
ValidRange(cr, info) ==
    /\ cr.kind = "bytes"
    /\ cr.start = info.Next
    /\ cr.length = info.Length
    /\ \/ cr.stop = cr.length - 1
       \/ (cr.stop - cr.start + 1) % BlockSize = 0

\* C26: on an OPEN file, updateEntry issues WriteAt only when Content-Range
\* has start = CurPos, length = Length and (stop = length - 1 or
\* (stop - start + 1) mod B = 0); every other request gets 400 with the
\* Range header bytes=<CurPos>-<Length-1>/<Length> and changes no state.
C26_ResumeChecks ==
    [][/\ (/\ last'.op = "updateEntry"
           /\ inflight[Handler] = Idle
           /\ StatNow(KeyA).err = Nil
           /\ StatNow(KeyA).stat.Next # FileComplete)
          => \A cr \in ContentRanges :
               (UpdateEntryRequest(KeyA, cr)
                  /\ ~ValidRange(cr, StatNow(KeyA).stat))
               => (/\ last'.ret = StatusBadRequest
                   /\ last'.buf = RangeHeader(StatNow(KeyA).stat)
                   /\ StoresUnchanged
                   /\ inflight' = inflight)
       /\ (/\ inflight[Handler].op = "updateEntry"
           /\ last.op = "updateEntry"
           /\ \E fail \in BOOLEAN : UpdateEntryWrite(fail))
          => ValidRange([kind |-> "bytes",
                         start |-> inflight[Handler].start,
                         stop |-> inflight[Handler].stop,
                         length |-> inflight[Handler].length],
                        StatNow(KeyA).stat)]_vars

\* C26, what the code checks: a request is turned down with 400 and the
\* Range header, nothing changed, exactly when Content-Range is missing or
\* does not parse, or start # CurPos, or length # Length, or it stops
\* before length - 1 with (stop - start + 1) mod B # 0
C26_ResumeChecksBelowLength ==
    [][(/\ last'.op = "updateEntry"
        /\ inflight[Handler] = Idle
        /\ StatNow(KeyA).err = Nil
        /\ StatNow(KeyA).stat.Next # FileComplete)
       => \A cr \in ContentRanges :
            UpdateEntryRequest(KeyA, cr)
            => LET info == StatNow(KeyA).stat
                   bad == \/ cr.kind # "bytes"
                          \/ cr.start # info.Next
                          \/ cr.length # info.Length
                          \/ /\ cr.stop < cr.length - 1
                             /\ (cr.stop - cr.start + 1) % BlockSize # 0
               IN  IF bad
                   THEN /\ last'.ret = StatusBadRequest
                        /\ last'.buf = RangeHeader(info)
                        /\ StoresUnchanged
                        /\ inflight' = inflight
                   ELSE /\ last'.ret = 0
                        /\ inflight'[Handler].op = "updateEntry"]_vars

(* ------------------------------------------------------------------ *)
(* The callers of the cumulative digest                               *)
(* ------------------------------------------------------------------ *)

\* the greatest number of Writes between two resets of the state
MaxWrites == 3

\* the inputs of Write
WriteInputs == {<<>>, <<1>>, <<2>>, <<200, 7>>}

\* the prefixes given to Sum
SumPrefixes == {NilSlice, Slice(<<>>), Slice(<<5>>)}

\* the states given to UnmarshalBinary: nil, empty, of the digest size, and
\* shorter and longer than it
UnmarshalInputs ==
    {NilSlice, Slice(<<>>), Slice(md5SumArray(<<1>>)),
     Slice([i \in 1..Size |-> 250]), Slice(<<9>>),
     Slice([i \in 1..(Size + 1) |-> 3])}

storeVars == <<backend, db, dyn, s3, now, inflight, last, wlog>>

DigestWrite(p) ==
    /\ ~digest.panic
    /\ Len(digest.hist) < MaxWrites
    /\ LET res == digestWrite(digest.current, p) IN
       digest' = [digest EXCEPT !.current = res.current,
                                !.panic = res.panic,
                                !.hist = Append(@, p),
                                !.op = "Write", !.arg = p,
                                !.ret = NilSlice, !.err = Nil]
    /\ UNCHANGED storeVars

DigestSum(in) ==
    /\ ~digest.panic
    /\ digest' = [digest EXCEPT !.op = "Sum", !.arg = in.b,
                                !.ret = digestSum(digest.current, in),
                                !.err = Nil]
    /\ UNCHANGED storeVars

DigestReset ==
    /\ ~digest.panic
    /\ digest' = [NewDigest EXCEPT !.op = "Reset"]
    /\ UNCHANGED storeVars

DigestMarshalBinary ==
    /\ ~digest.panic
    /\ digest' = [digest EXCEPT !.op = "MarshalBinary", !.arg = <<>>,
                                !.ret = digestMarshalBinary(digest.current),
                                !.err = Nil]
    /\ UNCHANGED storeVars

DigestUnmarshalBinary(b) ==
    /\ ~digest.panic
    /\ LET res == digestUnmarshalBinary(digest.current, b) IN
       digest' = [digest EXCEPT
                    !.current = res.current,
                    !.base = IF res.err = Nil THEN b ELSE @,
                    !.hist = IF res.err = Nil THEN <<>> ELSE @,
                    !.op = "UnmarshalBinary", !.arg = b.b,
                    !.ret = NilSlice, !.err = res.err]
    /\ UNCHANGED storeVars

NextDigest ==
    \/ \E p \in WriteInputs : DigestWrite(p)
    \/ \E in \in SumPrefixes : DigestSum(in)
    \/ DigestReset
    \/ DigestMarshalBinary
    \/ \E b \in UnmarshalInputs : DigestUnmarshalBinary(b)

SpecDigest == Init /\ [][NextDigest]_vars

\* the byte-wise sum modulo 256 of the 16-byte digests of the inputs ps
RECURSIVE SumOfDigests(_)
SumOfDigests(ps) ==
    IF Len(ps) = 1 THEN md5SumArray(ps[1])
    ELSE LET rest == SumOfDigests(Tail(ps)) IN
         [i \in 1..Size |-> (md5SumArray(ps[1])[i] + rest[i]) % 256]

\* the state of a new digest after the Writes of ps, in that order
RECURSIVE WriteAll(_, _)
WriteAll(current, ps) ==
    IF ps = <<>> THEN current
    ELSE WriteAll(digestWrite(current, ps[1]).current, Tail(ps))

\* C27: the cumulative digest is order-independent: after the Writes of a
\* new (or reset) digest its state is the digest of the first input plus,
\* byte-wise modulo 256, the digests of the later ones; writing the same
\* inputs in any other order gives the same state; and Sum(prefix) returns
\* prefix followed by the state and leaves the state as it is.
C27_OrderIndependent ==
    (digest.base = NilSlice /\ ~digest.panic) =>
      /\ digest.current =
           IF digest.hist = <<>> THEN NilSlice
           ELSE Slice(SumOfDigests(digest.hist))
      /\ \A f \in Permutations(1..Len(digest.hist)) :
           WriteAll(NilSlice, [i \in 1..Len(digest.hist) |->
                                 digest.hist[f[i]]]) = digest.current
      /\ digest.op = "Sum" => digest.ret.b = digest.arg \o digest.current.b

\* three different inputs were written to a new digest, a byte of the
\* state has wrapped around, and Sum has returned the state after a prefix
C27_Witness ==
    /\ digest.base = NilSlice
    /\ Len(digest.hist) = 3
    /\ Cardinality({digest.hist[i] : i \in 1..3}) = 3
    /\ \E i \in 1..Size :
         md5SumArray(digest.hist[1])[i] + md5SumArray(digest.hist[2])[i]
           + md5SumArray(digest.hist[3])[i] >= 256
    /\ digest.op = "Sum"
    /\ digest.arg = <<5>>
    /\ Len(digest.ret.b) = Size + 1

\* the state base after the Writes of ps were added to it
RECURSIVE AddDigests(_, _)
AddDigests(base, ps) ==
    IF ps = <<>> THEN base
    ELSE AddDigests([i \in 1..Size |->
                       (base[i] + md5SumArray(ps[1])[i]) % 256], Tail(ps))

\* C28: UnmarshalBinary accepts a state of the digest size, restoring it so
\* that later Writes continue from it, and the empty state, which resets
\* the digest; a state of any other length is rejected with an error and
\* leaves the digest unchanged. MarshalBinary returns the state verbatim.
C28_UnmarshalSizes ==
    [][/\ (digest'.op = "UnmarshalBinary" /\ ~digest.panic) =>
            \A b \in UnmarshalInputs :
              DigestUnmarshalBinary(b) =>
                IF Len(b.b) = Size
                  THEN digest'.err = Nil /\ digest'.current = b
                ELSE IF Len(b.b) = 0
                  THEN digest'.err = Nil /\ digest'.current = NilSlice
                ELSE digest'.err # Nil /\ digest'.current = digest.current
       /\ (digest'.op = "MarshalBinary" /\ digest' # digest)
            => digest'.ret = digest.current /\ digest'.current = digest.current
       /\ (Len(digest'.base.b) = Size /\ ~digest'.panic)
            => digest'.current.b = AddDigests(digest'.base.b, digest'.hist)
      ]_vars

\* C28, the part the code keeps: a state of the digest size is restored and
\* later Writes continue from it, and MarshalBinary returns the state
C28_RestoresFullState ==
    [][/\ (digest'.op = "UnmarshalBinary" /\ ~digest.panic) =>
            \A b \in UnmarshalInputs :
              (DigestUnmarshalBinary(b) /\ Len(b.b) = Size)
                => digest'.err = Nil /\ digest'.current = b
       /\ (digest'.op = "MarshalBinary" /\ digest' # digest)
            => digest'.ret = digest.current /\ digest'.current = digest.current
       /\ (Len(digest'.base.b) = Size /\ ~digest'.panic)
            => digest'.current.b = AddDigests(digest'.base.b, digest'.hist)
      ]_vars

\* some WriteAt(k, pos, data) would be accepted now and move the file on:
\* it returns a position other than the CurPos stored (the embedded
\* backend), or passes the checks of the call with data to put or with the
\* file to complete (the object-store backend)
CanAdvance(k) ==
    \E pos \in 0..MaxLen : \E n \in 0..MaxLen :
      IF backend = "badger"
      THEN ENABLED (/\ BadgerWriteAt(k, pos, Data(1, pos, n), FALSE)
                    /\ last'.err = Nil
                    /\ last'.ret # MetaOf(k).CurPos)
      ELSE /\ n > 0 \/ pos = MetaOf(k).Length
           /\ ENABLED (/\ AwsWriteAtCall(Caller, k, pos, Data(1, pos, n))
                       /\ inflight'[Caller] # Idle)

\* C29: every OPEN file with no expected hash can still be completed by
\* WriteAt calls the backend accepts; in particular it is never left at a
\* CurPos from which every further WriteAt is rejected: with no call in
\* flight, some WriteAt is accepted and moves it on.
C29_OpenCanComplete ==
    (/\ \A q \in Procs : inflight[q] = Idle
     /\ HasMeta(KeyA)
     /\ MetaOf(KeyA).CurPos # FileComplete
     /\ MetaOf(KeyA).Hash = <<>>)
    => CanAdvance(KeyA)

\* C30: every stored block record of a file is exactly BlockSize octets
\* long, except block Length \div BlockSize (the last one), which is
\* Length % BlockSize octets when that is not zero; no block with a higher
\* index is stored.
C30_BlockSizes ==
    HasMeta(KeyA) =>
      LET L == MetaOf(KeyA).Length IN
      \A r \in BlockRecsIn(db, s3, KeyA) :
        /\ r[1] <= L \div BlockSize
        /\ r[1] < L \div BlockSize => Len(r[2]) = BlockSize
        /\ r[1] = L \div BlockSize =>
             (L % BlockSize # 0 /\ Len(r[2]) = L % BlockSize)

\* the number of blocks of a file of length L
NumBlocks(L) == (L \div BlockSize) + (IF L % BlockSize > 0 THEN 1 ELSE 0)

\* C31: whenever Stat(K) succeeds with Next = FileComplete, every block
\* 0 .. ceil(Length/B) - 1 of K is present and no ReadAt at a pos in
\* 0 .. Length - 1 returns ErrNotFound, also when the writes of the upload
\* were made at different instants, each block getting its expiry when it
\* was written and the metadata a new one with every write.
C31_CompleteHasBlocks ==
    \A k \in Keys :
      (/\ wlog[k].clean
       /\ StatNow(k).err = Nil
       /\ StatNow(k).stat.Next = FileComplete
       /\ LegalLog(k, StatNow(k).stat.Length)) =>
        LET L == StatNow(k).stat.Length IN
        /\ \A i \in 0..(NumBlocks(L) - 1) : i \in BlocksOf(k)
        /\ \A pos \in 0..(L - 1) :
             \A res \in ReadNow(k, 1, pos) : res.err # ErrNotFound

\* the bytes of the blocks stored for key k, from block i on, in block order
RECURSIVE StoredFrom(_, _)
StoredFrom(k, i) ==
    IF i > MaxLen THEN <<>>
    ELSE (IF i \in BlocksOf(k)
          THEN (CHOOSE r \in BlockRecsIn(db, s3, k) : r[1] = i)[2]
          ELSE <<>>) \o StoredFrom(k, i + 1)

\* C32: in every reachable state, on either backend and under concurrent
\* writers, the Hash of a COMPLETE file is the digest of the concatenation,
\* in block order, of the blocks stored for it.
C32_HashOfStored ==
    \A k \in Keys :
      (HasMeta(k) /\ MetaOf(k).CurPos = FileComplete) =>
        MetaOf(k).Hash = toHex(HashOf(StoredFrom(k, 0)))

\* the block records a WriteAt(k, pos, data) writes: block pos \div B + j
\* holds the j-th BlockSize octets of data (the last one what is left)
BlocksWritten(pos, data) ==
    {<<(pos \div BlockSize) + j,
       SubSeq(data, j * BlockSize + 1,
              IF (j + 1) * BlockSize < Len(data) THEN (j + 1) * BlockSize
              ELSE Len(data))>> : j \in 0..(NumBlocks(Len(data)) - 1)}

\* C33: when the finalizing WriteAt returns ErrInvalidHash, the blocks
\* written by that call remain stored, on both backends, and only the
\* metadata record is left as it was before the call.
C33_MismatchKeepsBlocks ==
    [][(Finalizing /\ last'.err = ErrInvalidHash) =>
         /\ HasMetaIn(db', dyn', last'.key)
         /\ MetaIn(db', dyn', last'.key) = MetaOf(last'.key)
         /\ BlocksWritten(last'.pos, last'.data)
              \subseteq BlockRecsIn(db', s3', last'.key)]_vars

\* C34: WriteAt with pos < 0 or pos mod BlockSize # 0 returns ErrInvalidPos
\* with position InvalidPos before any storage access, whatever the state
\* of the key (ABSENT, OPEN or COMPLETE) and whatever the data, and changes
\* no state.
C34_BadPosRejected ==
    [][(/\ last' # last
        /\ last'.op = "WriteAt"
        /\ (last'.pos < 0 \/ last'.pos % BlockSize # 0))
       => (/\ last'.err = ErrInvalidPos
           /\ last'.ret = InvalidPos
           /\ StoresUnchanged
           /\ inflight' = inflight
           /\ wlog' = wlog)]_vars

\* a write off a block boundary has been turned down on a COMPLETE file
\* that a write at a block boundary would have been refused on as existing
C34_Witness ==
    /\ last.op = "WriteAt"
    /\ last.err = ErrInvalidPos
    /\ last.ret = InvalidPos
    /\ last.pos = 1
    /\ last.data # <<>>
    /\ HasMeta(last.key)
    /\ MetaOf(last.key).CurPos = FileComplete
    /\ MetaOf(last.key).Length = BlockSize + 2
    /\ BlocksOf(last.key) = {0, 1}

\* the embedded store that holds what the object store holds for key k:
\* the metadata item of table t and the block objects of bucket objs
Embedded(t, objs, k) ==
    [x \in {infoKey(k)} \cup
            {blockKey(k, i) : i \in {j \in 0..MaxLen :
                 (S3Prefix \o blockKey(k, j)) \in DOMAIN objs}} |->
       IF x = infoKey(k)
       THEN [val |-> t[x].Value, exp |-> t[x].TTL]
       ELSE [val |-> objs[S3Prefix \o x].Body,
             exp |-> objs[S3Prefix \o x].Expires]]

\* C35: on the object-store backend, ReadAt on a COMPLETE file returns, for
\* every pos (on a block boundary or not) and every buffer size, a buffer
\* that goes beyond the end of the first block included, the count and the
\* bytes the embedded backend returns for the same file.
C35_SameAsEmbedded ==
    \A k \in Keys :
      (/\ backend = "aws"
       /\ wlog[k].clean
       /\ HasMeta(k)
       /\ MetaOf(k).CurPos = FileComplete
       /\ LegalLog(k, MetaOf(k).Length)
       /\ Len(Written(k)) = MetaOf(k).Length) =>
        \A pos \in WideReadPositions : \A lenbuf \in WideBufLens :
          AwsReadAtRes(dyn, s3, k, lenbuf, pos)
            = {BadgerReadAtRes(Embedded(dyn, s3, k), k, lenbuf, pos)}

\* C36: CreateFile is the only operation that takes a key out of ABSENT:
\* once a DeleteFile(K) has returned without error Stat(K) returns
\* ErrNotFound, and a key on which Stat returns ErrNotFound (deleted or
\* expired) stays so until a CreateFile(K) succeeds, also when a WriteAt on
\* K is in flight.
C36_OnlyCreateLeavesAbsent ==
    [][\A k \in Keys :
         /\ (DeleteReturns(k) /\ last'.err = Nil)
              => StatIn(db', dyn', k).err = ErrNotFound
         /\ (StatNow(k).err = ErrNotFound
               /\ StatIn(db', dyn', k).err # ErrNotFound)
              => (/\ last'.op = "CreateFile"
                  /\ last'.key = k
                  /\ last'.err = Nil)]_vars

\* the Create or Update handler answers in this step
HandlerResponds ==
    /\ inflight[Handler].op \in {"createEntry", "updateEntry"}
    /\ inflight'[Handler] = Idle

\* C37: the Create and Update handlers answer 201 only if every WriteAt of
\* their upload loop succeeded: when a WriteAt returns an error the loop
\* stops (no further WriteAt is issued) and the response is an error
\* status.
C37_WriteErrorReported ==
    [][/\ (HandlerResponds /\ last.op = "WriteAt" /\ last.err # Nil)
            => last'.ret >= StatusBadRequest
       /\ (/\ inflight[Handler].op \in {"createEntry", "updateEntry"}
           /\ last.op = "WriteAt"
           /\ last.err # Nil)
            => (HandlerResponds /\ StoresUnchanged)]_vars

\* the WriteAt that has just returned (last') was called with empty data
\* on an OPEN file at its CurPos, and no store operation failed
EmptyWrite ==
    /\ last' # last
    /\ last'.op = "WriteAt"
    /\ last'.data = <<>>
    /\ HasMeta(last'.key)
    /\ MetaOf(last'.key).CurPos >= 0
    /\ last'.pos = MetaOf(last'.key).CurPos
    /\ last'.err # StoreErr

\* C38: a WriteAt with empty data at pos = CurPos on an OPEN file writes no
\* block; if Length = 0 it finalizes the file (returns FileComplete, and
\* Hash becomes the digest of the empty input when none was supplied); if
\* Length > 0 it succeeds, returns the unchanged CurPos and only rewrites
\* the metadata record, with expiry and Created refreshed.
C38_EmptyWrite ==
    [][EmptyWrite =>
         LET k == last'.key
             fi == MetaOf(k)
             fi2 == MetaIn(db', dyn', k)
         IN  /\ BlockRecsIn(db', s3', k) = BlockRecsIn(db, s3, k)
             /\ HasMetaIn(db', dyn', k)
             /\ IF fi.Length = 0
                THEN (fi.Hash \in {<<>>, toHex(HashOf(<<>>))}) =>
                       /\ last'.err = Nil
                       /\ last'.ret = FileComplete
                       /\ fi2.CurPos = FileComplete
                       /\ fi2.Hash = toHex(HashOf(<<>>))
                ELSE /\ last'.err = Nil
                     /\ last'.ret = fi.CurPos
                     /\ fi2.CurPos = fi.CurPos
                     /\ fi2.Length = fi.Length
                     /\ fi2.Hash = fi.Hash
                     /\ fi2.Created = now
                     /\ ExpiryIn(db', dyn', k) = now + TTL]_vars

\* C39: Created is set to the current time by every metadata update,
\* CreateFile included: right after a successful CreateFile Stat(K).Created
\* is the time of the creation, and after each successful WriteAt it is
\* the time of that write.
C39_CreatedIsNow ==
    [][(/\ last' # last
        /\ last'.op \in {"CreateFile", "WriteAt"}
        /\ last'.err = Nil)
       => (/\ StatIn(db', dyn', last'.key).err = Nil
           /\ StatIn(db', dyn', last'.key).stat.Created = now)]_vars

====
